---- MODULE Spec2Model ----
(***************************************************************************)
(* A model of the EGL display backend of ANGLE                             *)
(* (src/libANGLE/renderer/gl/egl/DisplayEGL.cpp): context negotiation      *)
(* (initializeContext), the per-thread current-context cache (makeCurrent, *)
(* destroyNativeContext) and renderer creation.                            *)
(***************************************************************************)
EXTENDS Integers, Sequences, FiniteSets, TLC

(***************************************************************************)
(* EGL enumerants used by the modelled code.  EGL_CONTEXT_CLIENT_VERSION   *)
(* and EGL_CONTEXT_MAJOR_VERSION are the same enumerant in the EGL headers.*)
(***************************************************************************)
EGL_DONT_CARE == -1
EGL_NO_CONTEXT == 0
EGL_NO_SURFACE == 0
EGL_SUCCESS == 12288
EGL_NOT_INITIALIZED == 12289
EGL_BAD_ALLOC == 12291
EGL_BAD_ATTRIBUTE == 12292
EGL_BAD_MATCH == 12297
EGL_NONE == 12344
EGL_CONTEXT_MAJOR_VERSION == 12440
EGL_CONTEXT_CLIENT_VERSION == 12440
EGL_CONTEXT_MINOR_VERSION == 12539
EGL_CONTEXT_OPENGL_RESET_NOTIFICATION_STRATEGY == 12733
EGL_LOSE_CONTEXT_ON_RESET == 12735
EGL_GENERATE_RESET_ON_VIDEO_MEMORY_PURGE_NV == 13132
GL_TRUE == 1
EGL_PBUFFER_BIT == 1
EGL_PIXMAP_BIT == 2
EGL_WINDOW_BIT == 4
EGL_CONFIG_ID == 12328
EGL_FALSE == 0
EGL_TRUE == 1
EGL_NO_CONFIG_KHR == 0
EGL_OPENGL_ES2_BIT == 4
EGL_OPENGL_BIT == 8
EGL_OPENGL_ES3_BIT == 64
EGL_PLATFORM_ANGLE_TYPE_OPENGL_ANGLE == 12813
EGL_PLATFORM_ANGLE_TYPE_OPENGLES_ANGLE == 12814

(***************************************************************************)
(* Bounds of the model.                                                    *)
(***************************************************************************)
\* Requested major versions are drawn from EGL_DONT_CARE and 2..MaxRequestedMajor.
MaxRequestedMajor == 3
\* Requested minor versions are drawn from EGL_DONT_CARE and 0..MaxRequestedMinor.
MaxRequestedMinor == 1
\* A driver script lets at most MaxScriptSuccesses native calls succeed.
MaxScriptSuccesses == 2
\* The threads calling into the backend are 1..NumThreads.
NumThreads == 2
\* The application's window and pbuffer surfaces number NumAppSurfaces.
NumAppSurfaces == 1
\* At most MaxNativeContexts native contexts exist at a time.
MaxNativeContexts == 2
\* In the context-creation specification at most MaxSharingContexts exist, so
\* that a context is created sharing with another of the application's.
MaxSharingContexts == 3
\* The resources that can be attached to a framebuffer attachment.
NumResources == 2
\* The image indices, ImageIndex::MakeInvalid() included.
NumImageIndices == 2
\* The largest view count of a multiview attachment.
MaxViews == 2
\* The driver returns at most MaxNativeConfigs configs from chooseConfig.
MaxNativeConfigs == 2
\* The worker contexts alive at a time.
MaxWorkers == 2
\* In the adoption specification at most MaxExternalContexts external
\* contexts are created.
MaxExternalContexts == 1

VARIABLES
    \* --- the native EGL implementation (mEGL), fixed once initialize has run
    eglVersion,                         \* mEGL->majorVersion, mEGL->minorVersion
    hasKHRCreateContext,                \* mEGL->hasExtension("EGL_KHR_create_context")
    mHasEXTCreateContextRobustness,
    mHasNVRobustnessVideoMemoryPurge,
    hasKHRSurfacelessContext,           \* mEGL->hasExtension("EGL_KHR_surfaceless_context")
    \* --- one initializeContext call seen from its caller
    negPhase,                           \* "idle" | "returned"
    negArgs,                            \* the arguments of the last call
    outContext,                         \* the caller's EGLContext the out pointer refers to
    outAttribs,                         \* the caller's AttributeVector the out pointer refers to
    negError,                           \* the code of the egl::Error returned
    createCalls,                        \* native createContext calls issued by the last call
    \* --- the display backend (DisplayEGL) after initialize
    mVirtualizedContexts,
    mSupportsSurfaceless,
    mMockPbuffer,                       \* EGL_NO_SURFACE when the driver is surfaceless
    mRendererContext,                   \* mRenderer->getContext()
    mEGL,                               \* the FunctionsEGL loaded by initialize, or nullptr
    mCurrentNativeContexts,             \* thread id -> CurrentNativeContext, entries made on first use
    contexts,                           \* the gl::Context objects: native handle of the renderer, isExternal()
    \* --- the native driver
    nativeContexts,                     \* the native context handles that exist
    nativeCurrent,                      \* thread id -> the (surface, context) natively current
    \* --- the last backend operation: its native calls and the code of its egl::Error
    lastOp,
    \* --- one gl::FramebufferAttachment and the last operation applied to it
    attachment,                         \* the fields of the FramebufferAttachment
    fbLast,                             \* operation, arguments, state before, notifications fired
    otherAttachment,                    \* a second FramebufferAttachment, to move from and to
    refCount,                           \* resource -> onAttach calls received minus onDetach calls
    \* --- the configs of the display
    nativeConfigs,                      \* what mEGL->chooseConfig returns for mConfigAttribList
    mConfigIds,                         \* internal config id -> native EGL_CONFIG_ID
    cfgLast,                            \* the last generateConfigs call and the one before it
    \* --- the worker contexts handed out by createWorkerContext
    workers                             \* the WorkerContextEGL objects alive: their mContext

negVars == <<negPhase, negArgs, outContext, outAttribs, negError, createCalls>>
capVars == <<eglVersion, hasKHRCreateContext, mHasEXTCreateContextRobustness,
             mHasNVRobustnessVideoMemoryPurge, hasKHRSurfacelessContext>>
flagVars == <<mVirtualizedContexts, mSupportsSurfaceless, mMockPbuffer, mRendererContext, mEGL>>
dispVars == <<flagVars, mCurrentNativeContexts, contexts, nativeContexts, nativeCurrent, lastOp>>
fbVars == <<attachment, fbLast, otherAttachment, refCount>>
cfgVars == <<nativeConfigs, mConfigIds, cfgLast>>
wkVars == <<workers>>
vars == <<capVars, negVars, dispVars, fbVars, cfgVars, wkVars>>

(***************************************************************************)
(* gl::Version and its ordering.                                           *)
(***************************************************************************)
Version(major, minor) == [major |-> major, minor |-> minor]

VersionGE(a, b) ==
    \/ a.major > b.major
    \/ a.major = b.major /\ a.minor >= b.minor

(***************************************************************************)
(* egl::AttributeMap: an ordered map from attribute to value, modelled as  *)
(* a function on its key set.  toIntVector walks the keys in increasing    *)
(* order, emits key and value, and terminates the vector with EGL_NONE.    *)
(***************************************************************************)
EmptyAttributeMap == [k \in {} |-> 0]

AttribInsert(m, key, value) ==
    [k \in DOMAIN m \cup {key} |-> IF k = key THEN value ELSE m[k]]

MinKey(S) == CHOOSE k \in S : \A j \in S : k <= j

RECURSIVE PairsFrom(_, _)
PairsFrom(m, keys) ==
    IF keys = {} THEN <<>>
    ELSE LET k == MinKey(keys)
         IN  <<k, m[k]>> \o PairsFrom(m, keys \ {k})

toIntVector(m) == PairsFrom(m, DOMAIN m) \o <<EGL_NONE>>

(***************************************************************************)
(* The native eglCreateContext.  What the driver answers is not decided by *)
(* the backend: `oracle` scripts the driver, oracle[n] being EGL_SUCCESS   *)
(* when the n-th call of the operation succeeds and the error code the     *)
(* driver raises otherwise; calls past the script fail with EGL_BAD_ALLOC. *)
(* A successful call returns a handle no earlier call returned.            *)
(***************************************************************************)
NativeCreateContext(oracle, n, firstHandle, created) ==
    LET code == IF n <= Len(oracle) THEN oracle[n] ELSE EGL_BAD_ALLOC
    IN  [context |-> IF code = EGL_SUCCESS THEN firstHandle + created ELSE EGL_NO_CONTEXT,
         error   |-> code]

(***************************************************************************)
(* DisplayEGL::initializeContext, lines 146-251.                           *)
(***************************************************************************)
\* Lines 165 and 52: the native API takes EGL_CONTEXT_MAJOR/MINOR_VERSION.
SupportsFlexibleVersion ==
    VersionGE(eglVersion, Version(1, 5)) \/ hasKHRCreateContext

\* Line 157.
InitializeRequested(requestedMajor, requestedMinor) ==
    requestedMajor # EGL_DONT_CARE /\ requestedMinor # EGL_DONT_CARE

\* Mutant of esVersionsFrom2_0: the versions listed in ascending order.
esVersionsAscending == <<Version(2, 0), Version(3, 0), Version(3, 1), Version(3, 2)>>

\* Lines 178-183.
esVersionsFrom2_0 == <<Version(3, 2), Version(3, 1), Version(3, 0), Version(2, 0)>>

\* Lines 169-171 and 188-192: the attribute map naming one version.
VersionAttribs(version) ==
    AttribInsert(AttribInsert(EmptyAttributeMap, EGL_CONTEXT_MAJOR_VERSION, version.major),
                 EGL_CONTEXT_MINOR_VERSION, version.minor)

\* Lines 205-206.
FallbackAttribs == AttribInsert(EmptyAttributeMap, EGL_CONTEXT_CLIENT_VERSION, 2)

\* Mutant of UnsupportedRequestedVersion: && in place of || in line 200.
UnsupportedRequestedVersionAnd(requestedMajor, requestedMinor) ==
    /\ ~SupportsFlexibleVersion
    /\ InitializeRequested(requestedMajor, requestedMinor)
    /\ (requestedMajor # 2 /\ requestedMinor # 0)

\* Line 200: the legacy native API cannot honour this request.
UnsupportedRequestedVersion(requestedMajor, requestedMinor) ==
    /\ ~SupportsFlexibleVersion
    /\ InitializeRequested(requestedMajor, requestedMinor)
    /\ (requestedMajor # 2 \/ requestedMinor # 0)

\* A variant of lines 164-209 without the test of line 167: the four
\* versions are listed after the requested one.
ContextAttribListsAllVersions(requestedMajor, requestedMinor) ==
    IF SupportsFlexibleVersion
    THEN (IF InitializeRequested(requestedMajor, requestedMinor)
          THEN <<VersionAttribs(Version(requestedMajor, requestedMinor))>>
          ELSE <<>>)
         \o [i \in 1..Len(esVersionsFrom2_0) |-> VersionAttribs(esVersionsFrom2_0[i])]
    ELSE <<FallbackAttribs>>

\* Lines 164-209: contextAttribLists as the loop of line 211 finds it.
ContextAttribLists(requestedMajor, requestedMinor) ==
    IF SupportsFlexibleVersion
    THEN IF InitializeRequested(requestedMajor, requestedMinor)
         THEN <<VersionAttribs(Version(requestedMajor, requestedMinor))>>
         ELSE [i \in 1..Len(esVersionsFrom2_0) |-> VersionAttribs(esVersionsFrom2_0[i])]
    ELSE <<FallbackAttribs>>

\* Lines 218-225: attribsWithRobustness.
AttribsWithRobustness(attribs) ==
    LET withReset == AttribInsert(attribs, EGL_CONTEXT_OPENGL_RESET_NOTIFICATION_STRATEGY,
                                  EGL_LOSE_CONTEXT_ON_RESET)
    IN  IF mHasNVRobustnessVideoMemoryPurge
        THEN AttribInsert(withReset, EGL_GENERATE_RESET_ON_VIDEO_MEMORY_PURGE_NV, GL_TRUE)
        ELSE withReset

(***************************************************************************)
(* The progress of the loop of lines 211-248:                              *)
(*   calls        the native createContext calls issued so far             *)
(*   context      the handle the last call returned                        *)
(*   attribVector the vector handed to the last call                       *)
(*   eglError     the thread's native error state (what getError returns)  *)
(*   created      how many native contexts the calls have created          *)
(***************************************************************************)
LoopStart ==
    [calls |-> <<>>, context |-> EGL_NO_CONTEXT, attribVector |-> <<>>,
     eglError |-> EGL_SUCCESS, created |-> 0]

\* Lines 227-228 and 240-241: one mEGL->createContext(mConfig, shareContext, vector).
CreateContextAttempt(attribVector, shareContext, oracle, firstHandle, st) ==
    LET r == NativeCreateContext(oracle, Len(st.calls) + 1, firstHandle, st.created)
    IN  [calls        |-> Append(st.calls, [share   |-> shareContext,
                                            attribs |-> attribVector,
                                            context |-> r.context,
                                            error   |-> r.error]),
         context      |-> r.context,
         attribVector |-> attribVector,
         eglError     |-> r.error,
         created      |-> st.created + (IF r.context # EGL_NO_CONTEXT THEN 1 ELSE 0)]

\* Lines 229 and 242.
ContextCreated(st) == st.context # EGL_NO_CONTEXT

\* Lines 216-238: the robust attempt of one candidate, made only when
\* EGL_EXT_create_context_robustness is advertised.
RobustAttempt(attribs, shareContext, oracle, firstHandle, st) ==
    IF mHasEXTCreateContextRobustness
    THEN CreateContextAttempt(toIntVector(AttribsWithRobustness(attribs)),
                              shareContext, oracle, firstHandle, st)
    ELSE st

\* Lines 240-247: the attempt of one candidate without robustness attributes.
PlainAttempt(attribs, shareContext, oracle, firstHandle, st) ==
    CreateContextAttempt(toIntVector(attribs), shareContext, oracle, firstHandle, st)

\* Mutant of CreateLoop: a failed robust attempt moves on to the next
\* candidate, and the plain attempt is made only when robustness is absent.
RECURSIVE CreateLoopSkipsPlain(_, _, _, _, _, _)
CreateLoopSkipsPlain(lists, i, shareContext, oracle, firstHandle, st) ==
    IF i > Len(lists) THEN st
    ELSE LET attempt == IF mHasEXTCreateContextRobustness
                        THEN RobustAttempt(lists[i], shareContext, oracle, firstHandle, st)
                        ELSE PlainAttempt(lists[i], shareContext, oracle, firstHandle, st)
         IN  IF ContextCreated(attempt) THEN attempt
             ELSE CreateLoopSkipsPlain(lists, i + 1, shareContext, oracle, firstHandle, attempt)

\* Mutant of CreateLoop: the return of lines 231-233 is missing, so the plain
\* attempt is made after a successful robust one as well.
RECURSIVE CreateLoopNoReturn(_, _, _, _, _, _)
CreateLoopNoReturn(lists, i, shareContext, oracle, firstHandle, st) ==
    IF i > Len(lists) THEN st
    ELSE LET robust == RobustAttempt(lists[i], shareContext, oracle, firstHandle, st)
             plain == PlainAttempt(lists[i], shareContext, oracle, firstHandle, robust)
         IN  IF ContextCreated(plain) THEN plain
             ELSE IF ContextCreated(robust) THEN robust
             ELSE CreateLoopNoReturn(lists, i + 1, shareContext, oracle, firstHandle, plain)

\* Lines 211-248: the loop over contextAttribLists from its i-th element on.
RECURSIVE CreateLoop(_, _, _, _, _, _)
CreateLoop(lists, i, shareContext, oracle, firstHandle, st) ==
    IF i > Len(lists) THEN st
    ELSE LET robust == RobustAttempt(lists[i], shareContext, oracle, firstHandle, st)
         IN  IF ContextCreated(robust) THEN robust
             ELSE LET plain == PlainAttempt(lists[i], shareContext, oracle, firstHandle, robust)
                  IN  IF ContextCreated(plain) THEN plain
                      ELSE CreateLoop(lists, i + 1, shareContext, oracle, firstHandle, plain)

\* Lines 231-233 and 244-246: the out parameters and result of a successful call.
NegotiationSucceeded(st, priorContext, priorAttribs) ==
    [error |-> EGL_SUCCESS, outContext |-> st.context, outAttribs |-> st.attribVector,
     calls |-> st.calls, created |-> st.created, eglError |-> st.eglError]

\* Mutant of NegotiationFailed: the error code is the one the first failed
\* call raised, not the one getError holds after the last call.
NegotiationFailedFirstError(st, priorContext, priorAttribs) ==
    [error |-> st.calls[1].error, outContext |-> priorContext, outAttribs |-> priorAttribs,
     calls |-> st.calls, created |-> st.created, eglError |-> st.eglError]

\* Line 250: every candidate failed; the out parameters are not assigned.
NegotiationFailed(st, priorContext, priorAttribs) ==
    [error |-> st.eglError, outContext |-> priorContext, outAttribs |-> priorAttribs,
     calls |-> st.calls, created |-> st.created, eglError |-> st.eglError]

\* Line 202: return EglBadAttribute() before any native call.
RejectRequestedVersion(priorContext, priorAttribs) ==
    [error |-> EGL_BAD_ATTRIBUTE, outContext |-> priorContext, outAttribs |-> priorAttribs,
     calls |-> <<>>, created |-> 0, eglError |-> EGL_SUCCESS]

\* Lines 146-251.  priorContext and priorAttribs are what *outContext and
\* *outAttribs hold when the call is made.
initializeContext(shareContext, requestedMajor, requestedMinor, priorContext, priorAttribs, oracle, firstHandle) ==
    IF UnsupportedRequestedVersion(requestedMajor, requestedMinor)
    THEN RejectRequestedVersion(priorContext, priorAttribs)
    ELSE LET st == CreateLoop(ContextAttribLists(requestedMajor, requestedMinor), 1,
                              shareContext, oracle, firstHandle, LoopStart)
         IN  IF ContextCreated(st)
             THEN NegotiationSucceeded(st, priorContext, priorAttribs)
             ELSE NegotiationFailed(st, priorContext, priorAttribs)

\* The driver scripts: one outcome for each native call the negotiation of
\* a request has attempts for (a robust and a plain one per candidate when
\* robustness is advertised, a plain one otherwise).  A script lets at most
\* MaxScriptSuccesses calls succeed; its failing calls raise one error code,
\* except that the last scripted call may raise another.
CreateErrors == {EGL_BAD_ALLOC, EGL_BAD_MATCH}

AttemptsOf(lists) == Len(lists) * (IF mHasEXTCreateContextRobustness THEN 2 ELSE 1)

Oracles(n) ==
    {[i \in 1..n |-> IF i \in ok THEN EGL_SUCCESS ELSE IF i = n THEN last ELSE early] :
        ok \in {S \in SUBSET (1..n) : Cardinality(S) <= MaxScriptSuccesses},
        early \in CreateErrors, last \in CreateErrors}

(***************************************************************************)
(* The display backend's data.                                             *)
(***************************************************************************)
Threads == 1..NumThreads

\* The mock pbuffer is the first surface the driver creates (lines 322-325);
\* the application's surfaces are created after it.
MockPbufferHandle == EGL_NO_SURFACE + 1
AppSurfaceHandles == (MockPbufferHandle + 1)..(MockPbufferHandle + NumAppSurfaces)

\* An egl::Surface argument: null, a window or pbuffer surface, or an
\* ExternalSurfaceEGL (lines 422-443), whose getSurface() is EGL_NO_SURFACE.
NoSurfaceObject == [null |-> TRUE, surface |-> EGL_NO_SURFACE, external |-> FALSE]
ExternalSurfaceObject == [null |-> FALSE, surface |-> EGL_NO_SURFACE, external |-> TRUE]
SurfaceObjects ==
    {[null |-> FALSE, surface |-> h, external |-> FALSE] : h \in AppSurfaceHandles}
        \cup {ExternalSurfaceObject}

\* A gl::Context argument: null, or a context with its renderer's native
\* handle (ContextEGL::getContext) and its isExternal().
NoContextObject == [null |-> TRUE, native |-> EGL_NO_CONTEXT, external |-> FALSE]
ContextObject(native, external) == [null |-> FALSE, native |-> native, external |-> external]

\* A thread's CurrentNativeContext before the thread has used the backend.
DefaultCurrentNativeContext ==
    [surface |-> EGL_NO_SURFACE, context |-> EGL_NO_CONTEXT, isExternalContext |-> FALSE]

\* Lines 725 and 979: mCurrentNativeContexts[std::this_thread::get_id()].
\* operator[] makes the entry of a thread on its first use, with the default
\* values; the model holds that entry for every thread from the start.
\* mEGL: new FunctionsEGLDL() (line 258), nullptr after SafeDelete (line 390).
FunctionsEGLDL == "FunctionsEGLDL"
NullFunctionsEGL == "nullptr"

\* The backend is called between a successful initialize, which leaves the
\* renderer, and terminate.
Initialized == mEGL # NullFunctionsEGL /\ mRendererContext # EGL_NO_CONTEXT

CurrentNativeContextOf(t) == mCurrentNativeContexts[t]

\* The map once thread t's entry holds cc.
\* A variant of WithCurrentNativeContext that writes the entry of every thread.
WithCurrentNativeContextOfAll(t, cc) == [u \in Threads |-> cc]

WithCurrentNativeContext(t, cc) == [mCurrentNativeContexts EXCEPT ![t] = cc]

(***************************************************************************)
(* The native driver.  The outcome of a native call is the driver's: each  *)
(* native makeCurrent either succeeds, and then the pair is current on the *)
(* calling thread, or raises an error code and changes nothing.            *)
(***************************************************************************)
NativeErrors == {EGL_BAD_ALLOC, EGL_BAD_MATCH}
NativeResults == {EGL_SUCCESS} \cup NativeErrors

NativeCall(fn, surface, context, share, error) ==
    [fn |-> fn, surface |-> surface, context |-> context, share |-> share, error |-> error]

\* mEGL->makeCurrent(surface, context) answered `result` by the driver.
NativeMakeCurrent(surface, context, result) ==
    NativeCall("makeCurrent", surface, context, EGL_NO_CONTEXT, result)

\* What is natively current on a thread after it issued `calls`.
RECURSIVE CurrentAfter(_, _)
CurrentAfter(current, calls) ==
    IF calls = <<>> THEN current
    ELSE LET c == Head(calls)
         IN  CurrentAfter(IF c.fn = "makeCurrent" /\ c.error = EGL_SUCCESS
                          THEN [surface |-> c.surface, context |-> c.context]
                          ELSE current,
                          Tail(calls))

\* The smallest handle the driver has not in use.
FreshHandle == CHOOSE h \in 1..(Cardinality(nativeContexts) + 1) :
                   /\ h \notin nativeContexts
                   /\ \A k \in 1..(h - 1) : k \in nativeContexts

\* lastOp, the record of the backend operation that ran last: its name, the
\* native calls it issued in order and the code of the egl::Error it returned.
OpResult(op, calls, error) == [op |-> op, calls |-> calls, error |-> error]

\* The record of a makeCurrent: also the calling thread, the arguments and
\* the thread's entry as the call found it.
MakeCurrentResult(t, drawSurface, context, before, calls, error) ==
    [op |-> "makeCurrent", thread |-> t, drawSurface |-> drawSurface, context |-> context,
     before |-> before, calls |-> calls, error |-> error]

\* The record of a destroyNativeContext: also the handle destroyed, the map
\* as the call found it, and the map as it was when the native destroy call
\* was issued.
DestroyResult(t, context, before, atDestroy, calls) ==
    [op |-> "destroyNativeContext", thread |-> t, context |-> context, before |-> before,
     atDestroy |-> atDestroy, calls |-> calls, error |-> EGL_SUCCESS]

\* The record of a createContext: also the calling thread, the arguments,
\* the thread's entry as the call found it, the native contexts that
\* existed, and the gl::Context made (ContextEGL's renderer context and
\* isExternal), NoContextObject for nullptr.
CreateContextResult(t, shareContext, usingExternalContext, existing, result, calls, error) ==
    [op |-> "createContext", thread |-> t, shareContext |-> shareContext,
     usingExternalContext |-> usingExternalContext, before |-> mCurrentNativeContexts[t],
     existing |-> existing, result |-> result, calls |-> calls, error |-> error]

(***************************************************************************)
(* DisplayEGL::makeCurrent, lines 720-817.                                 *)
(***************************************************************************)
\* Lines 727-732.
NewSurface(drawSurface) ==
    IF drawSurface.null THEN EGL_NO_SURFACE ELSE drawSurface.surface

\* Lines 734-739.
NewContext(context) ==
    IF context.null THEN EGL_NO_CONTEXT ELSE context.native

\* DisplayGL::makeCurrent (the base class): it issues no EGL call and, the
\* surface and context being valid, returns NoError.
DisplayGLMakeCurrent == EGL_SUCCESS

\* Line 741.
TakesExternalPath(cc, context) ==
    cc.isExternalContext \/ (~context.null /\ context.external)

\* The ASSERTs of lines 743-771: what a call on the external path must meet.
ExternalPathAsserts(cc, drawSurface, context) ==
    /\ cc.surface = EGL_NO_SURFACE
    /\ IF ~cc.isExternalContext
       THEN /\ ~context.null
            /\ cc.context = EGL_NO_CONTEXT
            /\ ~drawSurface.null /\ drawSurface.external
            /\ drawSurface.surface = EGL_NO_SURFACE
       ELSE IF ~context.null
       THEN /\ cc.context = NewContext(context)
            /\ NewSurface(drawSurface) = EGL_NO_SURFACE
            /\ NewContext(context) # EGL_NO_CONTEXT
            /\ ~drawSurface.null /\ drawSurface.external
            /\ drawSurface.surface = EGL_NO_SURFACE
       ELSE /\ NewSurface(drawSurface) = EGL_NO_SURFACE
            /\ NewContext(context) = EGL_NO_CONTEXT
            /\ cc.context # EGL_NO_CONTEXT

\* Lines 744-750: switch to an external context.
AdoptExternal(cc, context) ==
    [cc EXCEPT !.context = NewContext(context), !.isExternalContext = TRUE]

\* Lines 756-765: switch surface but not context.
SwitchExternalSurface(cc, context) == cc

\* A release that leaves the entry marked external.
ReleaseExternalKeepsFlag(cc) ==
    [cc EXCEPT !.context = EGL_NO_CONTEXT]

\* Lines 766-774: release the external context.
ReleaseExternal(cc) ==
    [cc EXCEPT !.context = EGL_NO_CONTEXT, !.isExternalContext = FALSE]

\* An external path that hands the requested pair to the driver.
ExternalPathCallsDriver(cc, drawSurface, context) ==
    [cc    |-> IF ~cc.isExternalContext THEN AdoptExternal(cc, context)
               ELSE IF ~context.null THEN SwitchExternalSurface(cc, context)
               ELSE ReleaseExternal(cc),
     calls |-> <<NativeMakeCurrent(NewSurface(drawSurface), NewContext(context),
                                   EGL_SUCCESS)>>,
     error |-> DisplayGLMakeCurrent]

\* Lines 741-779: no eglMakeCurrent is issued.
ExternalPath(cc, drawSurface, context) ==
    [cc    |-> IF ~cc.isExternalContext THEN AdoptExternal(cc, context)
               ELSE IF ~context.null THEN SwitchExternalSurface(cc, context)
               ELSE ReleaseExternal(cc),
     calls |-> <<>>,
     error |-> DisplayGLMakeCurrent]

\* Lines 783-787: the context handed to the driver.
ResolvedContext(cc, context) ==
    IF mVirtualizedContexts /\ NewContext(context) # EGL_NO_CONTEXT
    THEN mRendererContext
    ELSE NewContext(context)

\* A variant of ResolvedSurface that does not look at the thread's entry.
ResolvedSurfaceNoReuse(cc, drawSurface, context) ==
    IF mVirtualizedContexts /\ NewContext(context) # EGL_NO_CONTEXT
    THEN IF NewSurface(drawSurface) = EGL_NO_SURFACE /\ ~mSupportsSurfaceless
         THEN mMockPbuffer ELSE NewSurface(drawSurface)
    ELSE NewSurface(drawSurface)

\* A variant of ResolvedSurface that never binds the mock pbuffer.
ResolvedSurfaceNoMock(cc, drawSurface, context) ==
    IF mVirtualizedContexts /\ NewContext(context) # EGL_NO_CONTEXT
    THEN IF NewSurface(drawSurface) = EGL_NO_SURFACE
         THEN cc.surface ELSE NewSurface(drawSurface)
    ELSE NewSurface(drawSurface)

\* Lines 783-803: the surface handed to the driver.
ResolvedSurface(cc, drawSurface, context) ==
    IF mVirtualizedContexts /\ NewContext(context) # EGL_NO_CONTEXT
    THEN LET kept == IF NewSurface(drawSurface) = EGL_NO_SURFACE
                     THEN cc.surface ELSE NewSurface(drawSurface)
         IN  IF kept = EGL_NO_SURFACE /\ ~mSupportsSurfaceless THEN mMockPbuffer ELSE kept
    ELSE NewSurface(drawSurface)

\* The ASSERTs of lines 785 and 802.
NormalPathAsserts(cc, drawSurface, context) ==
    (mVirtualizedContexts /\ NewContext(context) # EGL_NO_CONTEXT) =>
        /\ cc.context = EGL_NO_CONTEXT \/ NewContext(context) = cc.context
        /\ (/\ NewSurface(drawSurface) = EGL_NO_SURFACE
            /\ cc.surface = EGL_NO_SURFACE
            /\ ~mSupportsSurfaceless) => mMockPbuffer # EGL_NO_SURFACE

\* A comparison that asks for both the surface and the context to differ.
NeedsNativeCallBoth(newSurface, newContext, cc) ==
    newSurface # cc.surface /\ newContext # cc.context

\* Line 806.
NeedsNativeCall(newSurface, newContext, cc) ==
    newSurface # cc.surface \/ newContext # cc.context

\* A failure path that has already written the cache.
MakeCurrentFailedWritesCache(cc, call) ==
    [cc    |-> [cc EXCEPT !.surface = call.surface, !.context = call.context],
     calls |-> <<call>>,
     error |-> call.error]

\* Lines 808-811: eglMakeCurrent failed.
MakeCurrentFailed(cc, call) ==
    [cc |-> cc, calls |-> <<call>>, error |-> call.error]

\* Lines 812-816: eglMakeCurrent succeeded.
MakeCurrentBound(cc, call) ==
    [cc    |-> [cc EXCEPT !.surface = call.surface, !.context = call.context],
     calls |-> <<call>>,
     error |-> DisplayGLMakeCurrent]

\* Lines 781-816.
NormalPath(cc, drawSurface, context, nativeResult) ==
    LET newSurface == ResolvedSurface(cc, drawSurface, context)
        newContext == ResolvedContext(cc, context)
        call == NativeMakeCurrent(newSurface, newContext, nativeResult)
    IN  IF NeedsNativeCall(newSurface, newContext, cc)
        THEN IF call.error # EGL_SUCCESS
             THEN MakeCurrentFailed(cc, call)
             ELSE MakeCurrentBound(cc, call)
        ELSE [cc |-> cc, calls |-> <<>>, error |-> DisplayGLMakeCurrent]

\* Lines 720-817 on the calling thread's entry cc.
makeCurrent(cc, drawSurface, context, nativeResult) ==
    IF TakesExternalPath(cc, context)
    THEN ExternalPath(cc, drawSurface, context)
    ELSE NormalPath(cc, drawSurface, context, nativeResult)

\* What the ASSERTs of makeCurrent require of a call.
MakeCurrentAsserts(cc, drawSurface, context) ==
    IF TakesExternalPath(cc, context)
    THEN ExternalPathAsserts(cc, drawSurface, context)
    ELSE NormalPathAsserts(cc, drawSurface, context)

\* Lines 913-915: a context is made current without a surface only when the
\* display exposes surfacelessContext.
SurfacelessContextExposed == mSupportsSurfaceless \/ mVirtualizedContexts

ValidMakeCurrentArgs(drawSurface, context) ==
    (~context.null /\ NewSurface(drawSurface) = EGL_NO_SURFACE /\ ~context.external)
        => SurfacelessContextExposed

\* Thread t calls makeCurrent(display, drawSurface, readSurface, context).
MakeCurrent(t, drawSurface, context, nativeResult) ==
    LET cc == CurrentNativeContextOf(t)
        r == makeCurrent(cc, drawSurface, context, nativeResult)
    IN  /\ Initialized
        /\ ValidMakeCurrentArgs(drawSurface, context)
        /\ MakeCurrentAsserts(cc, drawSurface, context)
        /\ mCurrentNativeContexts' = WithCurrentNativeContext(t, r.cc)
        /\ nativeCurrent' = [nativeCurrent EXCEPT ![t] = CurrentAfter(@, r.calls)]
        /\ lastOp' = MakeCurrentResult(t, drawSurface, context, cc, r.calls, r.error)
        /\ UNCHANGED <<wkVars, fbVars, cfgVars, capVars, negVars, flagVars, contexts, nativeContexts>>

\* The answers the driver can give to a makeCurrent call of thread t: none is
\* asked for when the call takes the external path.
MakeCurrentResults(t, drawSurface, context) ==
    IF TakesExternalPath(CurrentNativeContextOf(t), context) THEN {EGL_SUCCESS}
    ELSE NativeResults

(***************************************************************************)
(* DisplayEGL::destroyNativeContext, lines 824-838.                        *)
(***************************************************************************)
\* A loop that stops at the first entry it clears.
ClearCurrentFirst(current, context) ==
    [u \in DOMAIN current |->
        IF /\ current[u].context = context
           /\ \A v \in DOMAIN current : v < u => current[v].context # context
        THEN [current[u] EXCEPT !.surface = EGL_NO_SURFACE, !.context = EGL_NO_CONTEXT]
        ELSE current[u]]

\* Lines 828-835: every thread's entry that holds `context` is cleared.
ClearCurrent(current, context) ==
    [u \in DOMAIN current |->
        IF current[u].context = context
        THEN [current[u] EXCEPT !.surface = EGL_NO_SURFACE, !.context = EGL_NO_CONTEXT]
        ELSE current[u]]

\* Line 837.
NativeDestroyContext(context) ==
    NativeCall("destroyContext", EGL_NO_SURFACE, context, EGL_NO_CONTEXT, EGL_SUCCESS)

\* A variant of destroyNativeContext that calls the driver before it walks
\* the map.
destroyNativeContextDriverFirst(current, context) ==
    [atDestroy |-> current,
     calls     |-> <<NativeDestroyContext(context)>>,
     current   |-> ClearCurrent(current, context)]

\* Lines 824-838: the loop over the map, then the native call; atDestroy is
\* the map the native call finds.
destroyNativeContext(current, context) ==
    LET cleared == ClearCurrent(current, context)
    IN  [atDestroy |-> cleared,
         calls     |-> <<NativeDestroyContext(context)>>,
         current   |-> cleared]

\* The native contexts owned by the renderer of a context of their own:
\* destroying the last gl::Context of such a renderer destroys the native
\* context through destroyNativeContext.
DestroyableContexts ==
    {c.native : c \in {x \in contexts : ~x.external}} \ {mRendererContext}

\* Thread t calls destroyNativeContext(context).
DestroyNativeContext(t, context) ==
    LET r == destroyNativeContext(mCurrentNativeContexts, context)
    IN
    /\ Initialized
    /\ context \in DestroyableContexts
    /\ mCurrentNativeContexts' = r.current
    /\ nativeContexts' = nativeContexts \ {context}
    /\ contexts' = contexts \ {ContextObject(context, FALSE)}
    /\ lastOp' = DestroyResult(t, context, mCurrentNativeContexts, r.atDestroy, r.calls)
    /\ UNCHANGED <<wkVars, fbVars, cfgVars, capVars, negVars, flagVars, nativeCurrent>>

(***************************************************************************)
(* DisplayEGL::createRenderer, lines 942-996, and createContext, 470-510.  *)
(***************************************************************************)
\* mDisplayAttributes: the display was created asking for ES 3.0
\* (EGL_PLATFORM_ANGLE_MAX_VERSION_MAJOR/MINOR_ANGLE, lines 153-156).
DisplayRequestedMajor == 3
DisplayRequestedMinor == 0

\* The createContext calls of a negotiation as native calls of the operation.
RECURSIVE AsNativeCalls(_)
AsNativeCalls(calls) ==
    IF calls = <<>> THEN <<>>
    ELSE <<NativeCall("createContext", EGL_NO_SURFACE, Head(calls).context,
                      Head(calls).share, Head(calls).error)>> \o AsNativeCalls(Tail(calls))

\* What createRenderer leaves behind:
\*   error    the code of the egl::Error returned
\*   context  the native context created or adopted (EGL_NO_CONTEXT: none)
\*   created  whether the driver created `context` in this call
\*   renderer whether *outRenderer holds a RendererEGL owning `context`
\*   touched  whether line 979 has looked up the thread's entry
\*   cc       the thread's entry afterwards
\*   calls    the native calls issued
RendererResult(error, context, created, renderer, touched, cc, calls) ==
    [error |-> error, context |-> context, created |-> created, renderer |-> renderer,
     touched |-> touched, cc |-> cc, calls |-> calls]

\* A variant of AdoptCurrentContext that writes the adopted context to the
\* thread's entry.
AdoptCurrentContextCached(cc, current) ==
    RendererResult(EGL_SUCCESS, current.context, FALSE, TRUE, TRUE,
                   [cc EXCEPT !.surface = mMockPbuffer, !.context = current.context], <<>>)

\* Lines 952-962 and 973-985: the context already current is adopted.
AdoptCurrentContext(cc, current) ==
    RendererResult(EGL_SUCCESS, current.context, FALSE, TRUE, TRUE, cc, <<>>)

\* Lines 980-984.
CacheNewContext(cc, mockPbuffer, context) ==
    [cc EXCEPT !.surface = mockPbuffer, !.context = context]

\* A variant of FinishRenderer that caches the new context whatever
\* makeNewContextCurrent is, and restores nothing.
FinishRendererAlwaysCaches(cc, mockPbuffer, context, makeNewContextCurrent, calls, restoreResult) ==
    RendererResult(EGL_SUCCESS, context, TRUE, TRUE, TRUE,
                   CacheNewContext(cc, mockPbuffer, context), calls)

\* Lines 973-995 once the new context is current on the mock pbuffer.
FinishRenderer(cc, mockPbuffer, context, makeNewContextCurrent, calls, restoreResult) ==
    IF makeNewContextCurrent
    THEN RendererResult(EGL_SUCCESS, context, TRUE, TRUE, TRUE,
                        CacheNewContext(cc, mockPbuffer, context), calls)
    ELSE LET restore == NativeMakeCurrent(cc.surface, cc.context, restoreResult)
         IN  RendererResult(IF restore.error # EGL_SUCCESS THEN EGL_NOT_INITIALIZED
                            ELSE EGL_SUCCESS,
                            context, TRUE, TRUE, TRUE, cc, Append(calls, restore))

\* Line 965: initializeContext(shareContext, mDisplayAttributes, &context,
\* &attribs) on the fresh locals of lines 947-948.
Negotiated(shareContext, oracle) ==
    initializeContext(shareContext, DisplayRequestedMajor, DisplayRequestedMinor,
                      EGL_NO_CONTEXT, <<>>, oracle, FreshHandle)

\* Lines 965-971 and on: the context negotiated (n, the outcome of line 965)
\* is made current on mMockPbuffer, mockPbuffer here.
CreateNewContext(cc, mockPbuffer, n, makeNewContextCurrent, bindResult, restoreResult) ==
    LET bind == NativeMakeCurrent(mockPbuffer, n.outContext, bindResult)
    IN  IF n.error # EGL_SUCCESS
        THEN RendererResult(n.error, EGL_NO_CONTEXT, FALSE, FALSE, FALSE, cc,
                            AsNativeCalls(n.calls))
        ELSE IF bind.error # EGL_SUCCESS
        THEN RendererResult(EGL_NOT_INITIALIZED, n.outContext, TRUE, FALSE, FALSE, cc,
                            Append(AsNativeCalls(n.calls), bind))
        ELSE FinishRenderer(cc, mockPbuffer, n.outContext, makeNewContextCurrent,
                            Append(AsNativeCalls(n.calls), bind), restoreResult)

\* Lines 942-996 on the calling thread's entry cc and native binding, with
\* mMockPbuffer being mockPbuffer; n is the outcome of the negotiation of
\* line 965 when that line is reached.
createRenderer(cc, current, mockPbuffer, n, makeNewContextCurrent, isExternalContext, bindResult, restoreResult) ==
    IF isExternalContext
    THEN AdoptCurrentContext(cc, current)
    ELSE CreateNewContext(cc, mockPbuffer, n, makeNewContextCurrent, bindResult,
                          restoreResult)

\* The ASSERTs of lines 487, 954, 955 and 959.
CreateRendererAsserts(current, shareContext, makeNewContextCurrent, isExternalContext) ==
    isExternalContext =>
        /\ shareContext = EGL_NO_CONTEXT
        /\ ~makeNewContextCurrent
        /\ current.context # EGL_NO_CONTEXT

\* Lines 478-481: under virtualization the context uses mRenderer.
UsesSharedRenderer(usingExternalContext) ==
    mVirtualizedContexts /\ ~usingExternalContext

\* A variant of NativeShareContext that never shares.
NativeShareContextIgnored(shareContext, usingExternalContext) == EGL_NO_CONTEXT

\* Lines 484-493.
NativeShareContext(shareContext, usingExternalContext) ==
    IF ~usingExternalContext /\ ~shareContext.null THEN shareContext.native
    ELSE EGL_NO_CONTEXT

\* The driver scripts of a createContext negotiation: the robust attempt
\* succeeds, or it raises EGL_BAD_MATCH and the plain attempt succeeds, or
\* both raise EGL_BAD_MATCH.
RendererOracles ==
    {<<EGL_SUCCESS>>, <<EGL_BAD_MATCH, EGL_SUCCESS>>, <<EGL_BAD_MATCH, EGL_BAD_MATCH>>}

\* createRenderer reports a failed makeCurrent as EGL_NOT_INITIALIZED whatever
\* the driver raised (lines 968 and 990): one error code stands for all.
RendererBindResults == {EGL_SUCCESS, EGL_BAD_MATCH}

\* The answers the driver can give to the makeCurrent that follows a
\* negotiation that ended as n: none is asked for when the negotiation failed.
BindResults(n) ==
    IF n.error = EGL_SUCCESS THEN RendererBindResults ELSE {EGL_SUCCESS}

\* The answers the driver can give to the makeCurrent that restores the
\* thread's binding: none is asked for when the first makeCurrent failed.
RestoreResults(bindResult) ==
    IF bindResult = EGL_SUCCESS THEN RendererBindResults ELSE {EGL_SUCCESS}

\* RendererEGL's destructor: a renderer that created its native context
\* destroys it through destroyNativeContext; an adopted context is left.
RendererReleased(r, current) ==
    IF r.renderer /\ r.created
    THEN [current |-> ClearCurrent(current, r.context),
          calls   |-> <<NativeDestroyContext(r.context)>>,
          destroyed |-> {r.context}]
    ELSE [current |-> current, calls |-> <<>>, destroyed |-> {}]

\* Thread t calls createContext(state, errorSet, configuration, shareContext, attribs).
CreateContext(t, shareContext, usingExternalContext, n, bindResult, restoreResult) ==
    IF UsesSharedRenderer(usingExternalContext)
    THEN /\ contexts' = contexts \cup {ContextObject(mRendererContext, FALSE)}
         /\ lastOp' = CreateContextResult(t, shareContext, usingExternalContext,
                                           nativeContexts,
                                           ContextObject(mRendererContext, FALSE),
                                           <<>>, EGL_SUCCESS)
         /\ UNCHANGED <<wkVars, fbVars, cfgVars, capVars, negVars, flagVars, mCurrentNativeContexts, nativeContexts,
                        nativeCurrent>>
    ELSE LET cc == CurrentNativeContextOf(t)
             share == NativeShareContext(shareContext, usingExternalContext)
             r == createRenderer(cc, nativeCurrent[t], mMockPbuffer, n, FALSE,
                                 usingExternalContext, bindResult, restoreResult)
             touched == IF r.touched THEN WithCurrentNativeContext(t, r.cc)
                        ELSE mCurrentNativeContexts
             released == RendererReleased(r, touched)
         IN  /\ usingExternalContext => shareContext.null
             /\ CreateRendererAsserts(nativeCurrent[t], share, FALSE, usingExternalContext)
             /\ nativeCurrent' = [nativeCurrent EXCEPT ![t] = CurrentAfter(@, r.calls)]
             /\ IF r.error = EGL_SUCCESS
                THEN /\ contexts' = contexts \cup {ContextObject(r.context, usingExternalContext)}
                     /\ mCurrentNativeContexts' = touched
                     /\ nativeContexts' =
                           nativeContexts \cup (IF r.created THEN {r.context} ELSE {})
                     /\ lastOp' = CreateContextResult(t, shareContext, usingExternalContext,
                                                       nativeContexts,
                                                       ContextObject(r.context,
                                                                     usingExternalContext),
                                                       r.calls, r.error)
                ELSE /\ contexts' = contexts
                     /\ mCurrentNativeContexts' = released.current
                     /\ nativeContexts' =
                           (nativeContexts \cup (IF r.created THEN {r.context} ELSE {}))
                               \ released.destroyed
                     /\ lastOp' = CreateContextResult(t, shareContext, usingExternalContext,
                                                       nativeContexts, NoContextObject,
                                                       r.calls \o released.calls, r.error)
             /\ UNCHANGED <<wkVars, fbVars, cfgVars, capVars, negVars, flagVars>>

\* Line 965 is not reached: there is no negotiation.
NotNegotiated == RejectRequestedVersion(EGL_NO_CONTEXT, <<>>)

\* createContext for a context with a renderer and native context of its own.
CreateOwnContextUpTo(shareContext, limit) ==
    /\ Initialized
    /\ ~UsesSharedRenderer(FALSE)
    /\ Cardinality(nativeContexts) < limit
    /\ \E oracle \in RendererOracles :
          LET n == Negotiated(NativeShareContext(shareContext, FALSE), oracle)
          IN  \E t \in Threads, bindResult \in BindResults(n) :
                 \E restoreResult \in RestoreResults(bindResult) :
                    CreateContext(t, shareContext, FALSE, n, bindResult, restoreResult)

CreateOwnContext(shareContext) == CreateOwnContextUpTo(shareContext, MaxNativeContexts)

\* createContext under virtualization: no native call is made.
CreateSharedContext(t, shareContext) ==
    /\ Initialized
    /\ UsesSharedRenderer(FALSE)
    /\ CreateContext(t, shareContext, FALSE, NotNegotiated, EGL_SUCCESS, EGL_SUCCESS)

\* The native contexts that belong to no renderer of the backend.  One that is
\* current on a thread is a context of the application (AppMakesCurrent).
ForeignContexts ==
    nativeContexts \ ({mRendererContext} \cup {c.native : c \in {x \in contexts : ~x.external}})

\* createContext with EGL_EXTERNAL_CONTEXT_ANGLE, called with the context of
\* one of the contexts `adoptable` current (lines 950-951): no native call
\* is made.
CreateExternalContextOf(t, adoptable) ==
    /\ Initialized
    /\ nativeCurrent[t].context \in adoptable
    /\ CreateContext(t, NoContextObject, TRUE, NotNegotiated, EGL_SUCCESS, EGL_SUCCESS)

\* createContext with EGL_EXTERNAL_CONTEXT_ANGLE while a context of the
\* application is current on the thread.
CreateExternalContext(t) == CreateExternalContextOf(t, ForeignContexts)

\* createContext with EGL_EXTERNAL_CONTEXT_ANGLE while any context is current
\* on the thread: line 959 asks for no more.
CreateExternalContextOfCurrent(t) == CreateExternalContextOf(t, nativeContexts)

(***************************************************************************)
(* The application: an external context is one the application created and *)
(* made current with the driver itself, before it asks the backend to      *)
(* adopt it.                                                               *)
(***************************************************************************)
AppMakesCurrent(t) ==
    /\ Initialized
    /\ CurrentNativeContextOf(t) = DefaultCurrentNativeContext
    /\ nativeCurrent[t].context = EGL_NO_CONTEXT
    /\ Cardinality(nativeContexts) < MaxNativeContexts
    /\ nativeContexts' = nativeContexts \cup {FreshHandle}
    /\ nativeCurrent' = [nativeCurrent EXCEPT
                            ![t] = [surface |-> EGL_NO_SURFACE, context |-> FreshHandle]]
    /\ lastOp' = OpResult("application", <<>>, EGL_SUCCESS)
    /\ UNCHANGED <<wkVars, fbVars, cfgVars, capVars, negVars, flagVars, mCurrentNativeContexts, contexts>>

(***************************************************************************)
(* The operations this backend does not implement: createPixmapSurface,    *)
(* lines 462-468, waitClient, lines 708-712, waitNative, lines 714-718.    *)
(* UNIMPLEMENTED() writes to the log.                                      *)
(***************************************************************************)
NullSurfaceImpl == "nullptr"

\* The record of an operation that makes no native call: what it logged and
\* what it returned, a SurfaceImpl pointer or the code of an egl::Error.
StubResult(op, returned) ==
    [op |-> op, calls |-> <<>>, log |-> "UNIMPLEMENTED", returned |-> returned]

\* Lines 466-467: return nullptr.
createPixmapSurface == StubResult("createPixmapSurface", NullSurfaceImpl)

\* Lines 710-711: return egl::NoError().
waitClient == StubResult("waitClient", EGL_SUCCESS)

\* Lines 716-717: return egl::NoError().
waitNative == StubResult("waitNative", EGL_SUCCESS)

CreatePixmapSurface ==
    /\ Initialized
    /\ lastOp' = createPixmapSurface
    /\ UNCHANGED <<wkVars, fbVars, cfgVars, capVars, negVars, flagVars, mCurrentNativeContexts, contexts,
                   nativeContexts, nativeCurrent>>

WaitClient ==
    /\ Initialized
    /\ lastOp' = waitClient
    /\ UNCHANGED <<wkVars, fbVars, cfgVars, capVars, negVars, flagVars, mCurrentNativeContexts, contexts,
                   nativeContexts, nativeCurrent>>

WaitNative ==
    /\ Initialized
    /\ lastOp' = waitNative
    /\ UNCHANGED <<wkVars, fbVars, cfgVars, capVars, negVars, flagVars, mCurrentNativeContexts, contexts,
                   nativeContexts, nativeCurrent>>

(***************************************************************************)
(* DisplayEGL::terminate, lines 360-391.                                   *)
(***************************************************************************)
\* mEGL->destroySurface(surface) answered `result` by the driver.
NativeDestroySurface(surface, result) ==
    NativeCall("destroySurface", surface, EGL_NO_CONTEXT, EGL_NO_CONTEXT, result)

\* mEGL->terminate().
NativeTerminate ==
    NativeCall("terminate", EGL_NO_SURFACE, EGL_NO_CONTEXT, EGL_NO_CONTEXT, EGL_SUCCESS)

\* The record of a terminate: also the calling thread, and the mock pbuffer
\* and the thread's native binding as the call found them.
TerminateResult(t, mockPbuffer, current, calls) ==
    [op |-> "terminate", thread |-> t, mockPbuffer |-> mockPbuffer, current |-> current,
     calls |-> calls]

\* Lines 364-368: the unbind; its failure is logged.
TerminateUnbind(unbindResult) ==
    <<NativeMakeCurrent(EGL_NO_SURFACE, EGL_NO_CONTEXT, unbindResult)>>

\* A variant of TerminateMockPbuffer that leaves the surface to the driver.
TerminateKeepsMockPbuffer(mockPbuffer, destroyResult) ==
    [mMockPbuffer |-> EGL_NO_SURFACE, calls |-> <<>>]

\* Lines 370-378: the mock pbuffer is destroyed and the handle dropped; a
\* failure is logged.
TerminateMockPbuffer(mockPbuffer, destroyResult) ==
    IF mockPbuffer # EGL_NO_SURFACE
    THEN [mMockPbuffer |-> EGL_NO_SURFACE,
          calls |-> <<NativeDestroySurface(mockPbuffer, destroyResult)>>]
    ELSE [mMockPbuffer |-> mockPbuffer, calls |-> <<>>]

\* Line 380, mRenderer.reset(): the renderer is destroyed unless a context
\* still holds it.
TerminateRenderer ==
    RendererReleased([renderer |-> ContextObject(mRendererContext, FALSE) \notin contexts,
                      created |-> TRUE, context |-> mRendererContext],
                     mCurrentNativeContexts)

\* Line 382: mCurrentNativeContexts.clear().
ClearedNativeContexts == [t \in Threads |-> DefaultCurrentNativeContext]

\* The answers of the driver to the calls of terminate.
TerminateResults == {EGL_SUCCESS, EGL_BAD_MATCH}

\* Thread t calls terminate().
Terminate(t, unbindResult, destroyResult) ==
    LET mock == TerminateMockPbuffer(mMockPbuffer, destroyResult)
        released == TerminateRenderer
        calls == TerminateUnbind(unbindResult) \o mock.calls \o released.calls
                     \o <<NativeTerminate>>
    IN  /\ Initialized
        /\ mMockPbuffer' = mock.mMockPbuffer
        /\ mRendererContext' = EGL_NO_CONTEXT
        /\ mCurrentNativeContexts' = ClearedNativeContexts
        /\ nativeContexts' = nativeContexts \ released.destroyed
        /\ nativeCurrent' = [nativeCurrent EXCEPT ![t] = CurrentAfter(@, calls)]
        /\ mEGL' = NullFunctionsEGL
        /\ lastOp' = TerminateResult(t, mMockPbuffer, nativeCurrent[t], calls)
        /\ UNCHANGED <<wkVars, fbVars, cfgVars, capVars, negVars, mVirtualizedContexts,
                       mSupportsSurfaceless, contexts>>

(***************************************************************************)
(* DisplayEGL::initialize, lines 253-358, on a display that is not         *)
(* initialized: constructed, terminated, or left by a failed initialize.   *)
(***************************************************************************)
\* mEGL->createPbufferSurface(config, attribs) answered `result` by the driver.
NativeCreatePbufferSurface(result) ==
    NativeCall("createPbufferSurface",
               IF result = EGL_SUCCESS THEN MockPbufferHandle ELSE EGL_NO_SURFACE,
               EGL_NO_CONTEXT, EGL_NO_CONTEXT, result)

\* Lines 319-331: a mock pbuffer is made when the driver is not surfaceless.
InitializeMockPbuffer(pbufferResult) ==
    IF ~hasKHRSurfacelessContext
    THEN LET call == NativeCreatePbufferSurface(pbufferResult)
         IN  [mMockPbuffer |-> call.surface, calls |-> <<call>>,
              error |-> IF call.surface = EGL_NO_SURFACE THEN EGL_NOT_INITIALIZED
                        ELSE EGL_SUCCESS]
    ELSE [mMockPbuffer |-> mMockPbuffer, calls |-> <<>>, error |-> EGL_SUCCESS]

\* RenderableTypesFromPlatformAttrib, lines 36-64.
RenderableTypesFromPlatformAttrib(platformAttrib) ==
    IF platformAttrib = EGL_PLATFORM_ANGLE_TYPE_OPENGL_ANGLE
    THEN <<EGL_OPENGL_BIT>>
    ELSE IF platformAttrib = EGL_PLATFORM_ANGLE_TYPE_OPENGLES_ANGLE
    THEN (IF VersionGE(eglVersion, Version(1, 5)) \/ hasKHRCreateContext
          THEN <<EGL_OPENGL_ES3_BIT>> ELSE <<>>) \o <<EGL_OPENGL_ES2_BIT>>
    ELSE <<>>

\* What the driver answers to a chooseConfig for an RGBA8, D24S8 config of a
\* renderable type: EGL_FALSE and an error; EGL_TRUE and no config, when
\* none matches; or EGL_TRUE and one config.
ChooseConfigFailed == [result |-> EGL_FALSE, numConfig |-> 0]
ChooseConfigNone == [result |-> EGL_TRUE, numConfig |-> 0]
ChooseConfigOne == [result |-> EGL_TRUE, numConfig |-> 1]
ChooseConfigAnswers == {ChooseConfigFailed, ChooseConfigNone, ChooseConfigOne}

\* The handle of the driver's RGBA8, D24S8 config of a renderable type.
FormatConfigOf(renderableType) == renderableType

\* Line 306: mEGL->chooseConfig(attribVector, &configWithFormat, 1, &numConfig);
\* the driver writes configWithFormat only when it returns a config.
NativeChooseConfigWithFormat(configWithFormat, renderableType, answer) ==
    [renderableType |-> renderableType,
     rgba |-> <<8, 8, 8, 8>>, depthStencil |-> <<24, 8>>,
     result |-> answer.result, numConfig |-> answer.numConfig,
     config |-> IF answer.result = EGL_TRUE /\ answer.numConfig = 1
                THEN FormatConfigOf(renderableType) ELSE configWithFormat]

\* Lines 297-310: the loop over renderableTypes from its i-th element on; it
\* is left at the first chooseConfig that returns EGL_TRUE.
RECURSIVE ChooseConfigLoop(_, _, _, _)
ChooseConfigLoop(renderableTypes, i, answers, st) ==
    IF i > Len(renderableTypes) THEN st
    ELSE LET call == NativeChooseConfigWithFormat(st.configWithFormat, renderableTypes[i],
                                                  answers[renderableTypes[i]])
             next == [configWithFormat |-> call.config, calls |-> Append(st.calls, call)]
         IN  IF call.result = EGL_TRUE THEN next
             ELSE ChooseConfigLoop(renderableTypes, i + 1, answers, next)

\* Lines 264-316: the version test, the renderable types and the config
\* with the format; `failed` names the step that returned an error.
ChooseConfigWithFormat(platformAttrib, answers) ==
    LET renderableTypes == RenderableTypesFromPlatformAttrib(platformAttrib)
        st == ChooseConfigLoop(renderableTypes, 1, answers,
                               [configWithFormat |-> EGL_NO_CONFIG_KHR, calls |-> <<>>])
    IN  IF ~VersionGE(eglVersion, Version(1, 4))
        THEN [renderableTypes |-> <<>>, chooseCalls |-> <<>>,
              configWithFormat |-> EGL_NO_CONFIG_KHR, failed |-> "eglVersion"]
        ELSE IF renderableTypes = <<>>
        THEN [renderableTypes |-> renderableTypes, chooseCalls |-> <<>>,
              configWithFormat |-> EGL_NO_CONFIG_KHR, failed |-> "renderableTypes"]
        ELSE [renderableTypes |-> renderableTypes, chooseCalls |-> st.calls,
              configWithFormat |-> st.configWithFormat,
              failed |-> IF st.configWithFormat = EGL_NO_CONFIG_KHR
                         THEN "chooseConfig" ELSE "none"]

\* The record of an initialize: also the calling thread, the thread's entry
\* as the call found it, the platform type asked for, what the driver
\* answers to a chooseConfig for each of the renderable types, the config
\* selected and the mock pbuffer made.
InitializeResult(t, before, platformAttrib, answers, chosen, mockPbuffer, calls, error) ==
    [op |-> "initialize", thread |-> t, before |-> before,
     platformAttrib |-> platformAttrib,
     answers |-> [i \in DOMAIN chosen.renderableTypes |-> answers[chosen.renderableTypes[i]]],
     renderableTypes |-> chosen.renderableTypes, chooseCalls |-> chosen.chooseCalls,
     configWithFormat |-> chosen.configWithFormat, failed |-> chosen.failed,
     mockPbuffer |-> mockPbuffer, calls |-> calls, error |-> error]

\* Line 345 is not reached: no renderer is made.
NoRenderer(cc) == RendererResult(EGL_NOT_INITIALIZED, EGL_NO_CONTEXT, FALSE, FALSE, FALSE, cc, <<>>)

\* Lines 253-358 on the calling thread's entry cc and native binding: the
\* display asks for virtualization or not, and the driver answers the
\* createPbufferSurface, the createContext calls and the makeCurrent.
initialize(cc, current, virtualized, platformAttrib, answers, pbufferResult, n, bindResult) ==
    LET chosen == ChooseConfigWithFormat(platformAttrib, answers)
        mock == InitializeMockPbuffer(pbufferResult)
        r == IF mock.error # EGL_SUCCESS THEN NoRenderer(cc)
             ELSE createRenderer(cc, current, mock.mMockPbuffer, n, TRUE, FALSE, bindResult,
                                 EGL_SUCCESS)
    IN  IF chosen.failed # "none"
        THEN [mVirtualizedContexts |-> virtualized,
              mEGL                 |-> FunctionsEGLDL,
              mSupportsSurfaceless |-> mSupportsSurfaceless,
              mMockPbuffer         |-> mMockPbuffer,
              chosen               |-> chosen,
              renderer             |-> NoRenderer(cc),
              calls                |-> <<>>,
              error                |-> EGL_NOT_INITIALIZED]
        ELSE [mVirtualizedContexts |-> virtualized,
              mEGL                 |-> FunctionsEGLDL,
              mSupportsSurfaceless |-> hasKHRSurfacelessContext,
              mMockPbuffer         |-> mock.mMockPbuffer,
              chosen               |-> chosen,
              renderer             |-> r,
              calls                |-> mock.calls \o r.calls,
              error                |-> r.error]

\* Thread t calls initialize(display).
Initialize(t, virtualized, platformAttrib, answers, pbufferResult, n, bindResult) ==
    LET cc == CurrentNativeContextOf(t)
        i == initialize(cc, nativeCurrent[t], virtualized, platformAttrib, answers,
                        pbufferResult, n, bindResult)
    IN  /\ ~Initialized
        /\ Cardinality(nativeContexts) < MaxNativeContexts
        /\ mVirtualizedContexts' = i.mVirtualizedContexts
        /\ mEGL' = i.mEGL
        /\ mSupportsSurfaceless' = i.mSupportsSurfaceless
        /\ mMockPbuffer' = i.mMockPbuffer
        /\ mRendererContext' = (IF i.renderer.renderer THEN i.renderer.context
                                ELSE EGL_NO_CONTEXT)
        /\ mCurrentNativeContexts' = (IF i.renderer.touched
                                      THEN WithCurrentNativeContext(t, i.renderer.cc)
                                      ELSE mCurrentNativeContexts)
        /\ nativeContexts' = nativeContexts \cup (IF i.renderer.created
                                                  THEN {i.renderer.context} ELSE {})
        /\ nativeCurrent' = [nativeCurrent EXCEPT ![t] = CurrentAfter(@, i.calls)]
        /\ lastOp' = InitializeResult(t, cc, platformAttrib, answers, i.chosen,
                                      i.mMockPbuffer, i.calls, i.error)
        /\ UNCHANGED <<wkVars, fbVars, cfgVars, capVars, negVars, contexts>>

\* The answers the driver can give to the createPbufferSurface of initialize:
\* none is asked for when the driver is surfaceless.
PbufferResults ==
    IF hasKHRSurfacelessContext THEN {EGL_SUCCESS} ELSE {EGL_SUCCESS, EGL_BAD_ALLOC}

\* The platform types a display is asked for (EGL_PLATFORM_ANGLE_TYPE_ANGLE,
\* 0 when the attribute is absent), and the driver's answers for the
\* renderable types.
PlatformAttribs ==
    {0, EGL_PLATFORM_ANGLE_TYPE_OPENGL_ANGLE, EGL_PLATFORM_ANGLE_TYPE_OPENGLES_ANGLE}
RenderableTypes == {EGL_OPENGL_BIT, EGL_OPENGL_ES3_BIT, EGL_OPENGL_ES2_BIT}
ChooseConfigDrivers(platformAttrib) ==
    LET renderableTypes == RenderableTypesFromPlatformAttrib(platformAttrib)
        asked == {renderableTypes[i] : i \in DOMAIN renderableTypes}
    IN  {[ty \in RenderableTypes |-> IF ty \in asked THEN answers[ty] ELSE ChooseConfigNone] :
            answers \in [asked -> ChooseConfigAnswers]}

\* A driver with an RGBA8, D24S8 config for every renderable type.
EveryTypeHasConfig == [ty \in RenderableTypes |-> ChooseConfigOne]

\* Line 112.
kDefaultEGLVirtualizedContexts == TRUE

\* The display after construction (lines 114-116): nothing is loaded, made or
\* cached.
DisplayConstructed ==
    /\ mVirtualizedContexts = kDefaultEGLVirtualizedContexts
    /\ mSupportsSurfaceless = FALSE
    /\ mMockPbuffer = EGL_NO_SURFACE
    /\ mRendererContext = EGL_NO_CONTEXT
    /\ mEGL = NullFunctionsEGL
    /\ mCurrentNativeContexts = [t \in Threads |-> DefaultCurrentNativeContext]
    /\ contexts = {}
    /\ nativeContexts = {}
    /\ nativeCurrent = [t \in Threads |-> [surface |-> EGL_NO_SURFACE,
                                            context |-> EGL_NO_CONTEXT]]
    /\ lastOp = OpResult("DisplayEGL", <<>>, EGL_SUCCESS)

(***************************************************************************)
(* WorkerContextEGL, lines 66-105, and createWorkerContext, lines 998-1009.*)
(***************************************************************************)
\* No worker context has been handed out.
WkIdle == workers = {}

\* Lines 81-85: the constructor stores the context and the pbuffer.
WorkerContextEGL(context, pbuffer) ==
    [null |-> FALSE, mContext |-> context, mPbuffer |-> pbuffer]

\* Line 1006: return nullptr.
NoWorkerContext == [null |-> TRUE, mContext |-> EGL_NO_CONTEXT, mPbuffer |-> EGL_NO_SURFACE]

\* Line 1005.
WorkerCreateFailedLog == "Unable to create the EGL context."

\* The arguments of createWorkerContext, with the native contexts that exist.
WorkerArgs(infoLog, sharedContext, workerAttribs, existing) ==
    [infoLog |-> infoLog, sharedContext |-> sharedContext, workerAttribs |-> workerAttribs,
     existing |-> existing]
NoWorkerArgs == WorkerArgs(<<>>, EGL_NO_CONTEXT, <<>>, {})

\* The record of a worker operation: its arguments, the native calls it
\* issued, the attribute vector handed to createContext, the worker and info
\* log it left, and what it returned.
WorkerResult(op, t, args, worker, attribs, infoLog, calls, returned) ==
    [op |-> op, thread |-> t, args |-> args, worker |-> worker, attribs |-> attribs,
     infoLog |-> infoLog, calls |-> calls, returned |-> returned]

\* A variant of createWorkerContext that hands out the renderer's context
\* when contexts are virtualized.
createWorkerContextVirtualized(infoLog, sharedContext, workerAttribs, result, handle) ==
    IF mVirtualizedContexts
    THEN [worker |-> WorkerContextEGL(mRendererContext, EGL_NO_SURFACE), infoLog |-> infoLog,
          attribs |-> <<>>, calls |-> <<>>]
    ELSE [worker |-> IF result = EGL_SUCCESS THEN WorkerContextEGL(handle, EGL_NO_SURFACE)
                     ELSE NoWorkerContext,
          infoLog |-> IF result = EGL_SUCCESS THEN infoLog
                      ELSE Append(infoLog, WorkerCreateFailedLog),
          attribs |-> workerAttribs,
          calls |-> <<NativeCall("createContext", EGL_NO_SURFACE,
                                 IF result = EGL_SUCCESS THEN handle ELSE EGL_NO_CONTEXT,
                                 sharedContext, result)>>]

\* Lines 998-1009; the driver answers the createContext of line 1002 with
\* `result` and, when it succeeds, the new handle `handle`.
createWorkerContext(infoLog, sharedContext, workerAttribs, result, handle) ==
    LET context == IF result = EGL_SUCCESS THEN handle ELSE EGL_NO_CONTEXT
        call == NativeCall("createContext", EGL_NO_SURFACE, context, sharedContext, result)
    IN  IF context = EGL_NO_CONTEXT
        THEN [worker |-> NoWorkerContext, infoLog |-> Append(infoLog, WorkerCreateFailedLog),
              attribs |-> workerAttribs, calls |-> <<call>>]
        ELSE [worker |-> WorkerContextEGL(context, EGL_NO_SURFACE), infoLog |-> infoLog,
              attribs |-> workerAttribs, calls |-> <<call>>]

\* Lines 92-100: WorkerContextEGL::makeCurrent.
workerMakeCurrent(worker, result) ==
    [calls |-> <<NativeMakeCurrent(worker.mPbuffer, worker.mContext, result)>>,
     returned |-> result = EGL_SUCCESS]

\* Lines 102-105: WorkerContextEGL::unmakeCurrent; the outcome is not looked at.
workerUnmakeCurrent(worker, result) ==
    [calls |-> <<NativeMakeCurrent(EGL_NO_SURFACE, EGL_NO_CONTEXT, result)>>,
     returned |-> TRUE]

\* Lines 87-90: the destructor.
workerDestroy(worker) == <<NativeDestroyContext(worker.mContext)>>

\* The attribute vectors a renderer hands to its workers: the vector its own
\* context was created with.
WorkerAttribVectors ==
    {toIntVector(AttribsWithRobustness(VersionAttribs(Version(3, 0)))),
     toIntVector(FallbackAttribs)}

\* What the info log holds when createWorkerContext is called.
WorkerInfoLogs == {<<>>, <<"earlier message">>}

\* Thread t calls createWorkerContext(infoLog, sharedContext, workerAttribs).
CreateWorkerContext(t, infoLog, sharedContext, workerAttribs, result) ==
    LET r == createWorkerContext(infoLog, sharedContext, workerAttribs, result, FreshHandle)
    IN  /\ Initialized
        /\ Cardinality(workers) < MaxWorkers
        /\ workers' = workers \cup (IF r.worker.null THEN {} ELSE {r.worker})
        /\ nativeContexts' =
              nativeContexts \cup ({r.calls[i].context : i \in DOMAIN r.calls} \ {EGL_NO_CONTEXT})
        /\ lastOp' = WorkerResult("createWorkerContext", t,
                                  WorkerArgs(infoLog, sharedContext, workerAttribs,
                                             nativeContexts),
                                  r.worker, r.attribs, r.infoLog, r.calls, ~r.worker.null)
        /\ UNCHANGED <<fbVars, cfgVars, capVars, negVars, flagVars, mCurrentNativeContexts,
                       contexts, nativeCurrent>>

\* Thread t calls worker->makeCurrent().
WorkerMakeCurrent(t, worker, result) ==
    LET r == workerMakeCurrent(worker, result)
    IN  /\ Initialized
        /\ worker \in workers
        /\ nativeCurrent' = [nativeCurrent EXCEPT ![t] = CurrentAfter(@, r.calls)]
        /\ lastOp' = WorkerResult("worker.makeCurrent", t, NoWorkerArgs, worker, <<>>, <<>>,
                                  r.calls, r.returned)
        /\ UNCHANGED <<wkVars, fbVars, cfgVars, capVars, negVars, flagVars,
                       mCurrentNativeContexts, contexts, nativeContexts>>

\* Thread t calls worker->unmakeCurrent().
WorkerUnmakeCurrent(t, worker, result) ==
    LET r == workerUnmakeCurrent(worker, result)
    IN  /\ Initialized
        /\ worker \in workers
        /\ nativeCurrent[t].context = worker.mContext
        /\ nativeCurrent' = [nativeCurrent EXCEPT ![t] = CurrentAfter(@, r.calls)]
        /\ lastOp' = WorkerResult("worker.unmakeCurrent", t, NoWorkerArgs, worker, <<>>, <<>>,
                                  r.calls, r.returned)
        /\ UNCHANGED <<wkVars, fbVars, cfgVars, capVars, negVars, flagVars,
                       mCurrentNativeContexts, contexts, nativeContexts>>

\* Thread t deletes the worker.
DestroyWorkerContext(t, worker) ==
    /\ Initialized
    /\ worker \in workers
    /\ workers' = workers \ {worker}
    /\ nativeContexts' = nativeContexts \ {worker.mContext}
    /\ lastOp' = WorkerResult("worker.destroy", t, NoWorkerArgs, worker, <<>>, <<>>,
                              workerDestroy(worker), TRUE)
    /\ UNCHANGED <<fbVars, cfgVars, capVars, negVars, flagVars, mCurrentNativeContexts,
                   contexts, nativeCurrent>>

(***************************************************************************)
(* The display after initialize (lines 253-358): the renderer's context,   *)
(* the first the driver created, is current on the initializing thread,    *)
(* thread 1, with the mock pbuffer when there is one (createRenderer with  *)
(* makeNewContextCurrent, line 345).                                       *)
(***************************************************************************)
InitialRendererContext == EGL_NO_CONTEXT + 1

DisplayInitialized(virtualized, surfaceless) ==
    /\ hasKHRSurfacelessContext = surfaceless
    /\ mVirtualizedContexts = virtualized
    /\ mSupportsSurfaceless = surfaceless
    /\ mMockPbuffer = (IF surfaceless THEN EGL_NO_SURFACE ELSE MockPbufferHandle)
    /\ mRendererContext = InitialRendererContext
    /\ mEGL = FunctionsEGLDL
    /\ mCurrentNativeContexts =
          [t \in Threads |->
              IF t = 1
              THEN [surface |-> IF surfaceless THEN EGL_NO_SURFACE ELSE MockPbufferHandle,
                    context |-> InitialRendererContext,
                    isExternalContext |-> FALSE]
              ELSE DefaultCurrentNativeContext]
    /\ contexts = {}
    /\ nativeContexts = {InitialRendererContext}
    /\ nativeCurrent =
          [t \in Threads |->
              IF t = 1
              THEN [surface |-> IF surfaceless THEN EGL_NO_SURFACE ELSE MockPbufferHandle,
                    context |-> InitialRendererContext]
              ELSE [surface |-> EGL_NO_SURFACE, context |-> EGL_NO_CONTEXT]]
    /\ lastOp = OpResult("initialize", <<>>, EGL_SUCCESS)

(***************************************************************************)
(* gl::FramebufferAttachment, FramebufferAttachment.cpp.  GLenum values    *)
(* are written by name; an ImageIndex is an opaque value compared with     *)
(* == and !=, InvalidIndex being ImageIndex::MakeInvalid().                *)
(***************************************************************************)
GL_NONE == "GL_NONE"
GL_TEXTURE == "GL_TEXTURE"
GL_RENDERBUFFER == "GL_RENDERBUFFER"
GL_COLOR_ATTACHMENT0 == "GL_COLOR_ATTACHMENT0"
GL_FRAMEBUFFER_MULTIVIEW_SIDE_BY_SIDE_ANGLE == "GL_FRAMEBUFFER_MULTIVIEW_SIDE_BY_SIDE_ANGLE"

InvalidIndex == "invalid"
NullResource == "nullptr"
Resources == {"resource" \o ToString(i) : i \in 1..NumResources}

\* Offset(): the zero offset.
Offset(x, y) == [x |-> x, y |-> y, z |-> 0]
ZeroOffset == Offset(0, 0)

\* Target::Target(), lines 26-30.
DefaultTarget == [mBinding |-> GL_NONE, mTextureIndex |-> InvalidIndex]

\* Target::Target(binding, imageIndex), lines 32-36.
Target(binding, imageIndex) == [mBinding |-> binding, mTextureIndex |-> imageIndex]

\* FramebufferAttachment::FramebufferAttachment(), lines 53-61.
DefaultAttachment ==
    [mType |-> GL_NONE, mTarget |-> DefaultTarget, mResource |-> NullResource,
     mNumViews |-> 1, mMultiviewLayout |-> GL_NONE, mBaseViewIndex |-> 0,
     mViewportOffsets |-> <<ZeroOffset>>]

\* The notifications a resource receives: onAttach and onDetach.
onAttach(resource) == [fn |-> "onAttach", resource |-> resource]
onDetach(resource) == [fn |-> "onDetach", resource |-> resource]

\* The result of an operation: the attachment after it, and the resource
\* notifications it fired, in order.
Attached(state, notifications) == [state |-> state, notifications |-> notifications]

\* std::vector::resize(1u) followed by the assignment of element 0.
ResetViewportOffsets(offsets) == <<ZeroOffset>>

\* A variant of detach without the null test of line 103: it notifies the
\* resource pointer whether or not a resource is bound.
detachAlwaysNotifies(a) ==
    Attached([mType |-> GL_NONE,
              mTarget |-> DefaultTarget,
              mResource |-> NullResource,
              mNumViews |-> 1,
              mMultiviewLayout |-> GL_NONE,
              mBaseViewIndex |-> 0,
              mViewportOffsets |-> ResetViewportOffsets(a.mViewportOffsets)],
             <<onDetach(a.mResource)>>)

\* FramebufferAttachment::detach, lines 100-116.
detach(a) ==
    Attached([mType |-> GL_NONE,
              mTarget |-> DefaultTarget,
              mResource |-> NullResource,
              mNumViews |-> 1,
              mMultiviewLayout |-> GL_NONE,
              mBaseViewIndex |-> 0,
              mViewportOffsets |-> ResetViewportOffsets(a.mViewportOffsets)],
             IF a.mResource # NullResource THEN <<onDetach(a.mResource)>> ELSE <<>>)

\* A variant of attachResource that notifies the resource bound before it
\* notifies the new one.
attachResourceDetachFirst(a, type, binding, textureIndex, resource) ==
    Attached([a EXCEPT !.mType = type,
                       !.mTarget = Target(binding, textureIndex),
                       !.mResource = resource],
             (IF a.mResource # NullResource THEN <<onDetach(a.mResource)>> ELSE <<>>)
                 \o <<onAttach(resource)>>)

\* A variant of attachResource that fires nothing when the resource is the
\* one already bound.
attachResourceOnce(a, type, binding, textureIndex, resource) ==
    Attached([a EXCEPT !.mType = type,
                       !.mTarget = Target(binding, textureIndex),
                       !.mResource = resource],
             IF a.mResource = resource
             THEN <<>>
             ELSE <<onAttach(resource)>> \o
                      (IF a.mResource # NullResource THEN <<onDetach(a.mResource)>> ELSE <<>>))

\* FramebufferAttachment::attach with a resource, lines 130-139.
attachResource(a, type, binding, textureIndex, resource) ==
    Attached([a EXCEPT !.mType = type,
                       !.mTarget = Target(binding, textureIndex),
                       !.mResource = resource],
             <<onAttach(resource)>> \o
                 (IF a.mResource # NullResource THEN <<onDetach(a.mResource)>> ELSE <<>>))

\* A variant of attach without the early return of lines 124-128: a null
\* resource only releases the one bound.
attachNullKeepsTarget(a, type, binding, textureIndex, resource) ==
    IF resource = NullResource
    THEN Attached([a EXCEPT !.mType = GL_NONE, !.mResource = NullResource],
                  detach(a).notifications)
    ELSE attachResource(a, type, binding, textureIndex, resource)

\* FramebufferAttachment::attach, lines 118-140.
attach(a, type, binding, textureIndex, resource) ==
    IF resource = NullResource
    THEN detach(a)
    ELSE attachResource(a, type, binding, textureIndex, resource)

\* FramebufferAttachment::getTextureImageIndex, lines 187-191.
getTextureImageIndex(a) == a.mTarget.mTextureIndex

\* A variant of operator== that compares the image index whatever the type.
AttachmentEqualsAnyType(a, b) ==
    /\ a.mResource = b.mResource
    /\ a.mType = b.mType
    /\ a.mNumViews = b.mNumViews
    /\ a.mMultiviewLayout = b.mMultiviewLayout
    /\ a.mBaseViewIndex = b.mBaseViewIndex
    /\ a.mViewportOffsets = b.mViewportOffsets
    /\ getTextureImageIndex(a) = getTextureImageIndex(b)

\* FramebufferAttachment::operator==, lines 260-275.
AttachmentEquals(a, b) ==
    IF \/ a.mResource # b.mResource
       \/ a.mType # b.mType
       \/ a.mNumViews # b.mNumViews
       \/ a.mMultiviewLayout # b.mMultiviewLayout
       \/ a.mBaseViewIndex # b.mBaseViewIndex
       \/ a.mViewportOffsets # b.mViewportOffsets
    THEN FALSE
    ELSE IF a.mType = GL_TEXTURE /\ getTextureImageIndex(a) # getTextureImageIndex(b)
    THEN FALSE
    ELSE TRUE

\* FramebufferAttachment::operator=(FramebufferAttachment &&), lines 77-93:
\* every field is swapped with the other attachment's; no resource is notified.
moveAssign(a, b) ==
    [state |-> [mType |-> b.mType, mTarget |-> b.mTarget, mResource |-> b.mResource,
                mNumViews |-> b.mNumViews, mMultiviewLayout |-> b.mMultiviewLayout,
                mBaseViewIndex |-> b.mBaseViewIndex,
                mViewportOffsets |-> b.mViewportOffsets],
     other |-> [mType |-> a.mType, mTarget |-> a.mTarget, mResource |-> a.mResource,
                mNumViews |-> a.mNumViews, mMultiviewLayout |-> a.mMultiviewLayout,
                mBaseViewIndex |-> a.mBaseViewIndex,
                mViewportOffsets |-> a.mViewportOffsets],
     notifications |-> <<>>]

\* The effect of one notification on the count of a resource.
Notified(count, notification, resource) ==
    IF notification.resource # resource THEN count
    ELSE IF notification.fn = "onAttach" THEN count + 1
    ELSE count - 1

\* The count of a resource after the first n of the notifications.
RECURSIVE CountAfter(_, _, _, _)
CountAfter(count, notifications, n, resource) ==
    IF n = 0 THEN count
    ELSE Notified(CountAfter(count, notifications, n - 1, resource), notifications[n], resource)

\* The counts after all the notifications, and the lowest count a resource
\* has while they are delivered.
CountsAfter(counts, notifications) ==
    [r \in DOMAIN counts |-> CountAfter(counts[r], notifications, Len(notifications), r)]

LowestCounts(counts, notifications) ==
    [r \in DOMAIN counts |->
        LET seen == {CountAfter(counts[r], notifications, n, r) : n \in 0..Len(notifications)}
        IN  CHOOSE low \in seen : \A c \in seen : low <= c]

\* The values the fields of an attachment take.
AttachmentTypes == {GL_NONE, GL_TEXTURE, GL_RENDERBUFFER}
Bindings == {GL_NONE, GL_COLOR_ATTACHMENT0}
ImageIndices == {InvalidIndex} \cup {"index" \o ToString(i) : i \in 1..(NumImageIndices - 1)}
MultiviewLayouts == {GL_NONE, GL_FRAMEBUFFER_MULTIVIEW_SIDE_BY_SIDE_ANGLE}
ViewportOffsetVectors == {<<ZeroOffset>>, <<Offset(1, 0), ZeroOffset>>}

AttachmentStates ==
    [mType : AttachmentTypes,
     mTarget : [mBinding : Bindings, mTextureIndex : ImageIndices],
     mResource : Resources \cup {NullResource},
     mNumViews : 1..MaxViews,
     mMultiviewLayout : MultiviewLayouts,
     mBaseViewIndex : 0..(MaxViews - 1),
     mViewportOffsets : ViewportOffsetVectors]

NoAttachmentOp ==
    [op |-> "none", before |-> DefaultAttachment, notifications |-> <<>>]

\* Two default-constructed attachments; no resource has been notified.
FbIdle ==
    /\ attachment = DefaultAttachment
    /\ fbLast = NoAttachmentOp
    /\ otherAttachment = DefaultAttachment
    /\ refCount = [r \in Resources |-> 0]

\* attachment.attach(context, type, binding, textureIndex, resource)
Attach(type, binding, textureIndex, resource) ==
    LET r == attach(attachment, type, binding, textureIndex, resource)
    IN  /\ fbLast = NoAttachmentOp
        /\ attachment' = r.state
        /\ fbLast' = [op |-> "attach", before |-> attachment, type |-> type,
                      binding |-> binding, textureIndex |-> textureIndex,
                      resource |-> resource, notifications |-> r.notifications,
                      otherBefore |-> otherAttachment,
                      lowest |-> LowestCounts(refCount, r.notifications)]
        /\ refCount' = CountsAfter(refCount, r.notifications)
        /\ UNCHANGED <<wkVars, capVars, negVars, dispVars, cfgVars, otherAttachment>>

\* attachment.detach(context), called on its own or straight after a detach.
Detach ==
    LET r == detach(attachment)
    IN  /\ fbLast = NoAttachmentOp \/ fbLast.op = "detach"
        /\ attachment' = r.state
        /\ fbLast' = [op |-> "detach", before |-> attachment,
                      again |-> fbLast.op = "detach",
                      previous |-> IF fbLast.op = "detach" THEN fbLast.before
                                   ELSE attachment,
                      notifications |-> r.notifications,
                      otherBefore |-> otherAttachment,
                      lowest |-> LowestCounts(refCount, r.notifications)]
        /\ refCount' = CountsAfter(refCount, r.notifications)
        /\ UNCHANGED <<wkVars, capVars, negVars, dispVars, cfgVars, otherAttachment>>

\* attachment = std::move(otherAttachment)
MoveAssign ==
    LET r == moveAssign(attachment, otherAttachment)
    IN  /\ fbLast = NoAttachmentOp
        /\ attachment' = r.state
        /\ otherAttachment' = r.other
        /\ fbLast' = [op |-> "operator=", before |-> attachment,
                      notifications |-> r.notifications,
                      otherBefore |-> otherAttachment,
                      lowest |-> LowestCounts(refCount, r.notifications)]
        /\ refCount' = CountsAfter(refCount, r.notifications)
        /\ UNCHANGED <<wkVars, capVars, negVars, dispVars, cfgVars>>

\* attachment == other
Compare(other) ==
    /\ fbLast = NoAttachmentOp
    /\ fbLast' = [op |-> "==", before |-> attachment, other |-> other,
                  notifications |-> <<>>, result |-> AttachmentEquals(attachment, other)]
    /\ UNCHANGED <<wkVars, attachment, otherAttachment, refCount, capVars, negVars, dispVars,
                   cfgVars>>


(***************************************************************************)
(* DisplayEGL::generateConfigs, lines 538-674.  Of the attributes read at  *)
(* lines 557-591 the model keeps those the classification reads and        *)
(* EGL_CONFIG_ID; enumerants are written by name.  The configs have a      *)
(* fixed-point color component type (ASSERT of line 598).                  *)
(***************************************************************************)
EGL_RGB_BUFFER == "EGL_RGB_BUFFER"
EGL_LUMINANCE_BUFFER == "EGL_LUMINANCE_BUFFER"
GL_RGBA8 == "GL_RGBA8"
GL_RGB8 == "GL_RGB8"
GL_RGB565 == "GL_RGB565"
GL_RGB5_A1 == "GL_RGB5_A1"
GL_RGBA4 == "GL_RGBA4"
GL_RGB10_A2 == "GL_RGB10_A2"
GL_ZERO == "GL_ZERO"
GL_DEPTH_COMPONENT16 == "GL_DEPTH_COMPONENT16"
GL_DEPTH_COMPONENT24 == "GL_DEPTH_COMPONENT24"
GL_DEPTH24_STENCIL8 == "GL_DEPTH24_STENCIL8"
GL_STENCIL_INDEX8 == "GL_STENCIL_INDEX8"

\* The config is skipped: the continue of lines 633, 638 and 663.
NotHandled == "not handled"

\* A native config as getConfigAttrib reports it.
NativeConfig(configID, colorBufferType, rgba, ds, surfaceType) ==
    [configID |-> configID, colorBufferType |-> colorBufferType,
     redSize |-> rgba[1], greenSize |-> rgba[2], blueSize |-> rgba[3], alphaSize |-> rgba[4],
     depthSize |-> ds[1], stencilSize |-> ds[2], surfaceType |-> surfaceType]

\* bitmask & bit # 0, for a bit that is a power of two.
HasBit(bitmask, bit) == (bitmask \div bit) % 2 = 1

\* A variant of StripPixmapBit that trusts the driver.
KeepPixmapBit(surfaceType) == surfaceType

\* Line 594: surfaceType &= ~EGL_PIXMAP_BIT.
StripPixmapBit(surfaceType) ==
    IF HasBit(surfaceType, EGL_PIXMAP_BIT) THEN surfaceType - EGL_PIXMAP_BIT ELSE surfaceType

\* A variant of RenderTargetFormat that takes any 8-bit color for GL_RGBA8.
RenderTargetFormatAnyAlpha(config) ==
    IF config.colorBufferType # EGL_RGB_BUFFER THEN NotHandled
    ELSE IF config.redSize = 8 /\ config.greenSize = 8 /\ config.blueSize = 8
    THEN (IF config.alphaSize = 0 THEN GL_RGB8 ELSE GL_RGBA8)
    ELSE IF config.redSize = 5 /\ config.greenSize = 6 /\ config.blueSize = 5
            /\ config.alphaSize = 0
    THEN GL_RGB565
    ELSE IF config.redSize = 5 /\ config.greenSize = 5 /\ config.blueSize = 5
            /\ config.alphaSize = 1
    THEN GL_RGB5_A1
    ELSE IF config.redSize = 4 /\ config.greenSize = 4 /\ config.blueSize = 4
            /\ config.alphaSize = 4
    THEN GL_RGBA4
    ELSE IF config.redSize = 10 /\ config.greenSize = 10 /\ config.blueSize = 10
            /\ config.alphaSize = 2
    THEN GL_RGB10_A2
    ELSE NotHandled

\* Lines 596-639: config.renderTargetFormat, or the config is skipped.
RenderTargetFormat(config) ==
    IF config.colorBufferType # EGL_RGB_BUFFER THEN NotHandled
    ELSE IF config.redSize = 8 /\ config.greenSize = 8 /\ config.blueSize = 8
            /\ config.alphaSize = 8
    THEN GL_RGBA8
    ELSE IF config.redSize = 8 /\ config.greenSize = 8 /\ config.blueSize = 8
            /\ config.alphaSize = 0
    THEN GL_RGB8
    ELSE IF config.redSize = 5 /\ config.greenSize = 6 /\ config.blueSize = 5
            /\ config.alphaSize = 0
    THEN GL_RGB565
    ELSE IF config.redSize = 5 /\ config.greenSize = 5 /\ config.blueSize = 5
            /\ config.alphaSize = 1
    THEN GL_RGB5_A1
    ELSE IF config.redSize = 4 /\ config.greenSize = 4 /\ config.blueSize = 4
            /\ config.alphaSize = 4
    THEN GL_RGBA4
    ELSE IF config.redSize = 10 /\ config.greenSize = 10 /\ config.blueSize = 10
            /\ config.alphaSize = 2
    THEN GL_RGB10_A2
    ELSE NotHandled

\* A variant of DepthStencilFormat that tests the depth size alone for the
\* depth formats.
DepthStencilFormatByDepth(config) ==
    IF config.depthSize = 0 /\ config.stencilSize = 0 THEN GL_ZERO
    ELSE IF config.depthSize = 16 THEN GL_DEPTH_COMPONENT16
    ELSE IF config.depthSize = 24 /\ config.stencilSize = 0 THEN GL_DEPTH_COMPONENT24
    ELSE IF config.depthSize = 24 /\ config.stencilSize = 8 THEN GL_DEPTH24_STENCIL8
    ELSE IF config.depthSize = 0 /\ config.stencilSize = 8 THEN GL_STENCIL_INDEX8
    ELSE NotHandled

\* Lines 641-664: config.depthStencilFormat, or the config is skipped.
DepthStencilFormat(config) ==
    IF config.depthSize = 0 /\ config.stencilSize = 0 THEN GL_ZERO
    ELSE IF config.depthSize = 16 /\ config.stencilSize = 0 THEN GL_DEPTH_COMPONENT16
    ELSE IF config.depthSize = 24 /\ config.stencilSize = 0 THEN GL_DEPTH_COMPONENT24
    ELSE IF config.depthSize = 24 /\ config.stencilSize = 8 THEN GL_DEPTH24_STENCIL8
    ELSE IF config.depthSize = 0 /\ config.stencilSize = 8 THEN GL_STENCIL_INDEX8
    ELSE NotHandled

\* egl::ConfigSet::add: the config is stored under the next id, counted
\* from 1, which becomes its configID.
ConfigSetAdd(configSet, config) ==
    LET id == Len(configSet) + 1
    IN  [configSet |-> Append(configSet, [config EXCEPT !.configID = id]), id |-> id]

\* std::map: mConfigIds[internalId] = configID (line 670).
ConfigIdsPut(ids, internalId, configID) ==
    [i \in DOMAIN ids \cup {internalId} |-> IF i = internalId THEN configID ELSE ids[i]]

\* mConfigIds.clear() (line 541).
ClearConfigIds(ids) == [i \in {} |-> 0]

\* The loop of lines 553-671 from config i on.
RECURSIVE ConfigLoop(_, _, _)
ConfigLoop(configs, i, st) ==
    IF i > Len(configs) THEN st
    ELSE LET config == configs[i]
             renderTargetFormat == RenderTargetFormat(config)
             depthStencilFormat == DepthStencilFormat(config)
         IN  IF renderTargetFormat = NotHandled THEN ConfigLoop(configs, i + 1, st)
             ELSE IF depthStencilFormat = NotHandled THEN ConfigLoop(configs, i + 1, st)
             ELSE LET added == ConfigSetAdd(st.configSet,
                                   [configID |-> config.configID,
                                    colorBufferType |-> config.colorBufferType,
                                    redSize |-> config.redSize,
                                    greenSize |-> config.greenSize,
                                    blueSize |-> config.blueSize,
                                    alphaSize |-> config.alphaSize,
                                    depthSize |-> config.depthSize,
                                    stencilSize |-> config.stencilSize,
                                    surfaceType |-> StripPixmapBit(config.surfaceType),
                                    renderTargetFormat |-> renderTargetFormat,
                                    depthStencilFormat |-> depthStencilFormat])
                  IN  ConfigLoop(configs, i + 1,
                                 [configSet |-> added.configSet,
                                  mConfigIds |-> ConfigIdsPut(st.mConfigIds, added.id,
                                                              config.configID)])

\* A variant of generateConfigs without the clear of line 541.
generateConfigsKeepsIds(configs, ids) ==
    ConfigLoop(configs, 1, [configSet |-> <<>>, mConfigIds |-> ids])

\* DisplayEGL::generateConfigs, lines 538-674: the ConfigSet returned and
\* mConfigIds after the call.
generateConfigs(configs, ids) ==
    ConfigLoop(configs, 1, [configSet |-> <<>>, mConfigIds |-> ClearConfigIds(ids)])

\* The native configs of the model.
ColorBufferTypes == {EGL_RGB_BUFFER, EGL_LUMINANCE_BUFFER}
ColorSizes ==
    {<<8, 8, 8, 8>>, <<8, 8, 8, 0>>, <<5, 6, 5, 0>>, <<5, 5, 5, 1>>, <<4, 4, 4, 4>>,
     <<10, 10, 10, 2>>, <<8, 8, 8, 1>>, <<5, 6, 5, 8>>}
DepthStencilSizes ==
    {<<0, 0>>, <<16, 0>>, <<24, 0>>, <<24, 8>>, <<0, 8>>, <<16, 8>>, <<32, 0>>}

\* The EGL_CONFIG_ID of the i-th config of the driver.
NativeConfigId(i) == 10 * i

NativeConfigLists ==
    UNION {[(1..n) -> ColorBufferTypes \X ColorSizes \X DepthStencilSizes] :
              n \in 1..MaxNativeConfigs}

\* The list the driver returns: ASSERT(numConfigs > 0), line 545.
NativeConfigsOf(kinds) ==
    [i \in DOMAIN kinds |->
        NativeConfig(NativeConfigId(i), kinds[i][1], kinds[i][2], kinds[i][3],
                     EGL_WINDOW_BIT + EGL_PBUFFER_BIT + EGL_PIXMAP_BIT)]

NoConfigCall == [op |-> "none"]

CfgIdle ==
    /\ nativeConfigs = <<>>
    /\ mConfigIds = ClearConfigIds(<<>>)
    /\ cfgLast = NoConfigCall

\* What a generateConfigs call is remembered by.
ConfigCall(native, r) ==
    [op |-> "generateConfigs", native |-> native, configSet |-> r.configSet,
     mConfigIds |-> r.mConfigIds]

\* No surface has been created against the configs of the last call.
NoSurfaceCall == [op |-> "none"]

\* The display calls generateConfigs().
GenerateConfigs ==
    LET r == generateConfigs(nativeConfigs, mConfigIds)
    IN  /\ mConfigIds' = r.mConfigIds
        /\ cfgLast' = [op |-> "generateConfigs", native |-> nativeConfigs,
                       configSet |-> r.configSet, mConfigIds |-> r.mConfigIds,
                       before |-> IF cfgLast.op = "none" THEN NoConfigCall
                                  ELSE ConfigCall(cfgLast.native, cfgLast),
                       surface |-> NoSurfaceCall]
        /\ UNCHANGED <<wkVars, nativeConfigs, capVars, negVars, dispVars, fbVars>>

\* The display is terminated and initialized again, and the driver now
\* returns the configs without the one at position i.  mConfigIds is not
\* touched by terminate or initialize.
WithoutConfig(configs, i) ==
    SubSeq(configs, 1, i - 1) \o SubSeq(configs, i + 1, Len(configs))

DriverDropsConfig(i) ==
    /\ Len(nativeConfigs) > 1
    /\ i <= Len(nativeConfigs)
    /\ nativeConfigs' = WithoutConfig(nativeConfigs, i)
    /\ cfgLast' = NoConfigCall
    /\ UNCHANGED <<wkVars, mConfigIds, capVars, negVars, dispVars, fbVars>>

(***************************************************************************)
(* createWindowSurface, lines 393-406, and createPbufferSurface, lines     *)
(* 408-420: the native config is selected again by its EGL_CONFIG_ID.      *)
(***************************************************************************)
\* A variant of SurfaceConfigAttribList that names the internal id.
SurfaceConfigAttribListInternal(ids, configID) ==
    <<EGL_CONFIG_ID, configID, EGL_NONE>>

\* Lines 401 and 415: configAttribList.
SurfaceConfigAttribList(ids, configID) ==
    <<EGL_CONFIG_ID, ids[configID], EGL_NONE>>

\* mEGL->chooseConfig(configAttribList, &config, 1, &numConfig) for a list
\* that names an EGL_CONFIG_ID: the driver's configs with that id.
NativeChooseConfigById(native, configAttribList) ==
    SelectSeq(native, LAMBDA c : c.configID = configAttribList[2])

\* Lines 393-406 and 408-420 for a surface of the kind `op`: the attribute
\* list, what chooseConfig returned, and the config the surface is made with.
createSurface(op, native, ids, configID) ==
    LET configAttribList == SurfaceConfigAttribList(ids, configID)
        chosen == NativeChooseConfigById(native, configAttribList)
    IN  [op |-> op, configID |-> configID, configAttribList |-> configAttribList,
         numConfig |-> Len(chosen), config |-> chosen]

\* The display creates a window surface for the config of its config set
\* with the internal id configID (state.config->configID).
CreateWindowSurface(configID) ==
    /\ cfgLast.op = "generateConfigs"
    /\ configID \in DOMAIN cfgLast.configSet
    /\ cfgLast.surface = NoSurfaceCall
    /\ cfgLast' = [cfgLast EXCEPT !.surface = createSurface("createWindowSurface",
                                                            nativeConfigs, mConfigIds,
                                                            cfgLast.configSet[configID].configID)]
    /\ UNCHANGED <<wkVars, nativeConfigs, mConfigIds, capVars, negVars, dispVars, fbVars>>

\* The display creates a pbuffer surface for the config of its config set
\* with the internal id configID (state.config->configID).
CreatePbufferSurface(configID) ==
    /\ cfgLast.op = "generateConfigs"
    /\ configID \in DOMAIN cfgLast.configSet
    /\ cfgLast.surface = NoSurfaceCall
    /\ cfgLast' = [cfgLast EXCEPT !.surface = createSurface("createPbufferSurface",
                                                            nativeConfigs, mConfigIds,
                                                            cfgLast.configSet[configID].configID)]
    /\ UNCHANGED <<wkVars, nativeConfigs, mConfigIds, capVars, negVars, dispVars, fbVars>>

\* The surface has been handed to the caller.
SurfaceCallerReturns ==
    /\ cfgLast.op = "generateConfigs"
    /\ cfgLast.surface # NoSurfaceCall
    /\ cfgLast' = [cfgLast EXCEPT !.surface = NoSurfaceCall]
    /\ UNCHANGED <<wkVars, nativeConfigs, mConfigIds, capVars, negVars, dispVars, fbVars>>

\* The native configs of the surface specification: what chooseConfig returns
\* for the surface types EGL_WINDOW_BIT | EGL_PBUFFER_BIT (line 282) has both
\* bits, and the pixmap bit and the bit 8 (EGL_VG_COLORSPACE_LINEAR_BIT) or not.
SurfaceTypes ==
    {EGL_WINDOW_BIT + EGL_PBUFFER_BIT + pixmap + other :
        pixmap \in {0, EGL_PIXMAP_BIT}, other \in {0, 8}}
SurfaceTypeBits == {EGL_PBUFFER_BIT, EGL_PIXMAP_BIT, EGL_WINDOW_BIT, 8}

SurfaceConfigKinds ==
    {<<8, 8, 8, 8>>, <<5, 6, 5, 0>>, <<8, 8, 8, 1>>} \X {<<24, 8>>, <<16, 8>>} \X SurfaceTypes

SurfaceConfigLists ==
    UNION {[(1..n) -> SurfaceConfigKinds] : n \in 1..MaxNativeConfigs}

SurfaceConfigsOf(kinds) ==
    [i \in DOMAIN kinds |->
        NativeConfig(NativeConfigId(i), EGL_RGB_BUFFER, kinds[i][1], kinds[i][2], kinds[i][3])]

(***************************************************************************)
(* The negotiation specification: initializeContext called with every      *)
(* request against every native EGL and every driver script.               *)
(***************************************************************************)
RequestedMajors == {EGL_DONT_CARE} \cup (2..MaxRequestedMajor)
RequestedMinors == {EGL_DONT_CARE} \cup (0..MaxRequestedMinor)

\* Handle 1 is a native context an earlier operation created, which a call
\* may name as its share context; the driver's next fresh handle is 2.
EarlierContext == EGL_NO_CONTEXT + 1
NegFirstHandle == EarlierContext + 1

EGLVersions == {Version(1, 4), Version(1, 5)}

NoCall ==
    [share |-> EGL_NO_CONTEXT, major |-> EGL_DONT_CARE, minor |-> EGL_DONT_CARE]

\* The caller's out variables are fresh locals, as in createRenderer
\* (lines 947-948): EGL_NO_CONTEXT and an empty vector.
NegIdle ==
    /\ negPhase = "idle"
    /\ negArgs = NoCall
    /\ outContext = EGL_NO_CONTEXT
    /\ outAttribs = <<>>
    /\ negError = EGL_SUCCESS
    /\ createCalls = <<>>

NegInit ==
    /\ eglVersion \in EGLVersions
    /\ hasKHRCreateContext \in BOOLEAN
    /\ mHasEXTCreateContextRobustness \in BOOLEAN
    /\ mHasNVRobustnessVideoMemoryPurge \in BOOLEAN
    /\ NegIdle
    /\ WkIdle
    /\ DisplayInitialized(TRUE, TRUE)
    /\ FbIdle
    /\ CfgIdle

\* A caller invokes initializeContext and receives its result.
CallInitializeContext ==
    /\ negPhase = "idle"
    /\ \E shareContext \in {EGL_NO_CONTEXT, EarlierContext},
          requestedMajor \in RequestedMajors,
          requestedMinor \in RequestedMinors :
          \E oracle \in Oracles(AttemptsOf(ContextAttribLists(requestedMajor, requestedMinor))) :
             LET r == initializeContext(shareContext, requestedMajor, requestedMinor,
                                        outContext, outAttribs, oracle, NegFirstHandle)
             IN  /\ negArgs' = [share |-> shareContext, major |-> requestedMajor,
                                minor |-> requestedMinor]
                 /\ outContext' = r.outContext
                 /\ outAttribs' = r.outAttribs
                 /\ negError' = r.error
                 /\ createCalls' = r.calls
    /\ negPhase' = "returned"
    /\ UNCHANGED <<wkVars, fbVars, cfgVars, capVars, dispVars>>

\* The caller is done with the result; its locals go out of scope.
CallerReturns ==
    /\ negPhase = "returned"
    /\ negPhase' = "idle"
    /\ negArgs' = NoCall
    /\ outContext' = EGL_NO_CONTEXT
    /\ outAttribs' = <<>>
    /\ negError' = EGL_SUCCESS
    /\ createCalls' = <<>>
    /\ UNCHANGED <<wkVars, fbVars, cfgVars, capVars, dispVars>>

NegNext == CallInitializeContext \/ CallerReturns

SpecNegotiate == NegInit /\ [][NegNext]_vars

(***************************************************************************)
(* The display specification: threads call makeCurrent, createContext and  *)
(* destroyNativeContext on an initialized display.                         *)
(***************************************************************************)
Init ==
    /\ eglVersion = Version(1, 5)
    /\ hasKHRCreateContext = FALSE
    /\ mHasEXTCreateContextRobustness = TRUE
    /\ mHasNVRobustnessVideoMemoryPurge = FALSE
    /\ NegIdle
    /\ WkIdle
    /\ \E virtualized \in BOOLEAN, surfaceless \in BOOLEAN :
          DisplayInitialized(virtualized, surfaceless)
    /\ FbIdle
    /\ CfgIdle

Next ==
    \/ \E t \in Threads, drawSurface \in SurfaceObjects \cup {NoSurfaceObject},
          context \in contexts \cup {NoContextObject} :
          \E nativeResult \in MakeCurrentResults(t, drawSurface, context) :
             MakeCurrent(t, drawSurface, context, nativeResult)
    \/ \E t \in Threads, context \in nativeContexts : DestroyNativeContext(t, context)
    \/ \E shareContext \in contexts \cup {NoContextObject} : CreateOwnContext(shareContext)
    \/ \E t \in Threads, shareContext \in contexts \cup {NoContextObject} :
          CreateSharedContext(t, shareContext)
    \/ \E t \in Threads : CreateExternalContext(t)
    \/ \E t \in Threads : AppMakesCurrent(t)
    \/ CreatePixmapSurface
    \/ WaitClient
    \/ WaitNative
    \/ \E t \in Threads, unbindResult \in TerminateResults, destroyResult \in TerminateResults :
          Terminate(t, unbindResult, destroyResult)

Spec == Init /\ [][Next]_vars

(***************************************************************************)
(* The context-creation specification: createContext with and without a    *)
(* share context and for external contexts, and destroyNativeContext.      *)
(***************************************************************************)
ContextsNext ==
    \/ \E shareContext \in contexts \cup {NoContextObject} :
          CreateOwnContextUpTo(shareContext, MaxSharingContexts)
    \/ \E t \in Threads, shareContext \in contexts \cup {NoContextObject} :
          CreateSharedContext(t, shareContext)
    \/ \E t \in Threads : CreateExternalContext(t)
    \/ \E t \in Threads : AppMakesCurrent(t)
    \/ \E t \in Threads, context \in nativeContexts : DestroyNativeContext(t, context)

SpecContexts == Init /\ [][ContextsNext]_vars

(***************************************************************************)
(* The adoption specification: makeCurrent, createContext and              *)
(* destroyNativeContext, with external contexts created while any context  *)
(* is current on the thread, one of the backend's own included, on a       *)
(* display without virtualization.                                         *)
(***************************************************************************)
AdoptionInit ==
    /\ eglVersion = Version(1, 5)
    /\ hasKHRCreateContext = FALSE
    /\ mHasEXTCreateContextRobustness = TRUE
    /\ mHasNVRobustnessVideoMemoryPurge = FALSE
    /\ NegIdle
    /\ WkIdle
    /\ \E surfaceless \in BOOLEAN : DisplayInitialized(FALSE, surfaceless)
    /\ FbIdle
    /\ CfgIdle

AdoptionNext ==
    \/ \E t \in Threads, drawSurface \in SurfaceObjects \cup {NoSurfaceObject},
          context \in contexts \cup {NoContextObject} :
          \E nativeResult \in MakeCurrentResults(t, drawSurface, context) :
             MakeCurrent(t, drawSurface, context, nativeResult)
    \/ \E t \in Threads, context \in nativeContexts : DestroyNativeContext(t, context)
    \/ \E shareContext \in contexts \cup {NoContextObject} : CreateOwnContext(shareContext)
    \/ \E t \in Threads :
          /\ Cardinality({c \in contexts : c.external}) < MaxExternalContexts
          /\ CreateExternalContextOfCurrent(t)

SpecAdoption == AdoptionInit /\ [][AdoptionNext]_vars

(***************************************************************************)
(* The lifecycle specification: a constructed display is initialized,      *)
(* contexts with a renderer of their own are created and destroyed, and    *)
(* the display is terminated and initialized again.                        *)
(***************************************************************************)
LifecycleInit ==
    /\ eglVersion = Version(1, 5)
    /\ hasKHRCreateContext = FALSE
    /\ mHasEXTCreateContextRobustness = TRUE
    /\ mHasNVRobustnessVideoMemoryPurge = FALSE
    /\ hasKHRSurfacelessContext \in BOOLEAN
    /\ NegIdle
    /\ WkIdle
    /\ DisplayConstructed
    /\ FbIdle
    /\ CfgIdle

LifecycleNext ==
    \/ \E t \in Threads, virtualized \in BOOLEAN, pbufferResult \in PbufferResults,
          oracle \in RendererOracles :
          LET n == Negotiated(EGL_NO_CONTEXT, oracle)
          IN  \E bindResult \in BindResults(n) :
                 Initialize(t, virtualized, EGL_PLATFORM_ANGLE_TYPE_OPENGLES_ANGLE,
                            EveryTypeHasConfig, pbufferResult, n, bindResult)
    \/ \E shareContext \in contexts \cup {NoContextObject} : CreateOwnContext(shareContext)
    \/ \E t \in Threads, context \in nativeContexts : DestroyNativeContext(t, context)
    \/ \E t \in Threads, unbindResult \in TerminateResults, destroyResult \in TerminateResults :
          Terminate(t, unbindResult, destroyResult)

SpecLifecycle == LifecycleInit /\ [][LifecycleNext]_vars

(***************************************************************************)
(* The initialize specification: a constructed or terminated display is    *)
(* initialized for every platform type on every driver: EGL 1.3 to 1.5,    *)
(* with and without EGL_KHR_create_context, and every answer to the        *)
(* chooseConfig calls; the first createContext of the renderer succeeds.   *)
(***************************************************************************)
InitializeInit ==
    /\ eglVersion \in {Version(1, 3)} \cup EGLVersions
    /\ hasKHRCreateContext \in BOOLEAN
    /\ mHasEXTCreateContextRobustness = TRUE
    /\ mHasNVRobustnessVideoMemoryPurge = FALSE
    /\ hasKHRSurfacelessContext \in BOOLEAN
    /\ NegIdle
    /\ WkIdle
    /\ DisplayConstructed
    /\ FbIdle
    /\ CfgIdle

InitializeNext ==
    \/ \E t \in Threads, platformAttrib \in PlatformAttribs,
          pbufferResult \in PbufferResults :
          \E answers \in ChooseConfigDrivers(platformAttrib) :
             LET n == Negotiated(EGL_NO_CONTEXT, <<EGL_SUCCESS>>)
             IN  \E bindResult \in BindResults(n) :
                    Initialize(t, kDefaultEGLVirtualizedContexts, platformAttrib, answers,
                               pbufferResult, n, bindResult)
    \/ \E t \in Threads, unbindResult \in TerminateResults, destroyResult \in TerminateResults :
          Terminate(t, unbindResult, destroyResult)

SpecInitialize == InitializeInit /\ [][InitializeNext]_vars

(***************************************************************************)
(* The worker specification: worker contexts are created, bound, unbound   *)
(* and destroyed on a display with and without virtualization.             *)
(***************************************************************************)
WorkersNext ==
    \/ \E t \in Threads, infoLog \in WorkerInfoLogs,
          sharedContext \in nativeContexts \cup {EGL_NO_CONTEXT},
          workerAttribs \in WorkerAttribVectors, result \in NativeResults :
          CreateWorkerContext(t, infoLog, sharedContext, workerAttribs, result)
    \/ \E t \in Threads, worker \in workers, result \in NativeResults :
          WorkerMakeCurrent(t, worker, result)
    \/ \E t \in Threads, worker \in workers, result \in NativeResults :
          WorkerUnmakeCurrent(t, worker, result)
    \/ \E t \in Threads, worker \in workers : DestroyWorkerContext(t, worker)

SpecWorkers == Init /\ [][WorkersNext]_vars

(***************************************************************************)
(* The attachment specification: attach, detach and operator== applied to  *)
(* every attachment state.                                                 *)
(***************************************************************************)
\* The caller has seen the result of the operation.
AttachmentCallerReturns ==
    /\ fbLast # NoAttachmentOp
    /\ fbLast' = NoAttachmentOp
    /\ UNCHANGED <<wkVars, attachment, otherAttachment, refCount, capVars, negVars, dispVars,
                   cfgVars>>

\* Every attachment state is an input of attach, detach and operator==.
FbInit ==
    /\ eglVersion = Version(1, 5)
    /\ hasKHRCreateContext = FALSE
    /\ mHasEXTCreateContextRobustness = TRUE
    /\ mHasNVRobustnessVideoMemoryPurge = FALSE
    /\ NegIdle
    /\ WkIdle
    /\ DisplayInitialized(TRUE, TRUE)
    /\ attachment \in AttachmentStates
    /\ fbLast = NoAttachmentOp
    /\ otherAttachment = DefaultAttachment
    /\ refCount = [r \in Resources |-> IF attachment.mResource = r THEN 1 ELSE 0]
    /\ CfgIdle

FbNext ==
    \/ \E type \in AttachmentTypes, binding \in Bindings, textureIndex \in ImageIndices,
          resource \in Resources \cup {NullResource} :
          Attach(type, binding, textureIndex, resource)
    \/ Detach
    \/ \E other \in AttachmentStates : Compare(other)
    \/ AttachmentCallerReturns

SpecAttachment == FbInit /\ [][FbNext]_vars

(***************************************************************************)
(* The notification specification: two default-constructed attachments     *)
(* are attached to, detached and move-assigned to one another.             *)
(***************************************************************************)
NotifyNext ==
    \/ \E type \in AttachmentTypes, binding \in Bindings, textureIndex \in ImageIndices,
          resource \in Resources \cup {NullResource} :
          Attach(type, binding, textureIndex, resource)
    \/ Detach
    \/ MoveAssign
    \/ AttachmentCallerReturns

SpecNotify == Init /\ [][NotifyNext]_vars

(***************************************************************************)
(* The config specification: generateConfigs called, and called again, on  *)
(* every list of native configs.                                           *)
(***************************************************************************)
CfgInit ==
    /\ eglVersion = Version(1, 5)
    /\ hasKHRCreateContext = FALSE
    /\ mHasEXTCreateContextRobustness = TRUE
    /\ mHasNVRobustnessVideoMemoryPurge = FALSE
    /\ NegIdle
    /\ WkIdle
    /\ DisplayInitialized(TRUE, TRUE)
    /\ FbIdle
    /\ \E kinds \in NativeConfigLists : nativeConfigs = NativeConfigsOf(kinds)
    /\ mConfigIds = ClearConfigIds(<<>>)
    /\ cfgLast = NoConfigCall

CfgNext ==
    \/ GenerateConfigs
    \/ \E i \in 1..MaxNativeConfigs : DriverDropsConfig(i)

SpecConfigs == CfgInit /\ [][CfgNext]_vars

(***************************************************************************)
(* The surface specification: generateConfigs on native configs of every   *)
(* surface type, and surfaces created for the configs it returned.         *)
(***************************************************************************)
SurfacesInit ==
    /\ eglVersion = Version(1, 5)
    /\ hasKHRCreateContext = FALSE
    /\ mHasEXTCreateContextRobustness = TRUE
    /\ mHasNVRobustnessVideoMemoryPurge = FALSE
    /\ NegIdle
    /\ WkIdle
    /\ DisplayInitialized(TRUE, TRUE)
    /\ FbIdle
    /\ \E kinds \in SurfaceConfigLists : nativeConfigs = SurfaceConfigsOf(kinds)
    /\ mConfigIds = ClearConfigIds(<<>>)
    /\ cfgLast = NoConfigCall

SurfacesNext ==
    \/ GenerateConfigs
    \/ \E configID \in 1..MaxNativeConfigs : CreateWindowSurface(configID)
    \/ \E configID \in 1..MaxNativeConfigs : CreatePbufferSurface(configID)
    \/ SurfaceCallerReturns

SpecSurfaces == SurfacesInit /\ [][SurfacesNext]_vars

(***************************************************************************)
(* Properties of initializeContext, read off the native calls it issued.   *)
(***************************************************************************)
\* The attribute vector `vec` names attribute `key`.
VectorHasKey(vec, key) ==
    \E j \in 1..Len(vec) : j % 2 = 1 /\ j < Len(vec) /\ vec[j] = key

\* The key/value pairs of `vec` before its robustness attributes and terminator.
RECURSIVE VersionPart(_)
VersionPart(vec) ==
    IF Len(vec) < 2 THEN <<>>
    ELSE IF vec[1] \in {EGL_CONTEXT_OPENGL_RESET_NOTIFICATION_STRATEGY,
                        EGL_GENERATE_RESET_ON_VIDEO_MEMORY_PURGE_NV}
         THEN VersionPart(SubSeq(vec, 3, Len(vec)))
         ELSE <<vec[1], vec[2]>> \o VersionPart(SubSeq(vec, 3, Len(vec)))

VersionVector(major, minor) ==
    <<EGL_CONTEXT_MAJOR_VERSION, major, EGL_CONTEXT_MINOR_VERSION, minor>>

CallFailed(call) == call.context = EGL_NO_CONTEXT

FlexibleEGL == eglVersion.major > 1 \/ eglVersion.minor >= 5 \/ hasKHRCreateContext

BothRequested == negArgs.major # EGL_DONT_CARE /\ negArgs.minor # EGL_DONT_CARE

\* The candidates the specification documents for the request of the last call.
DocumentedCandidates ==
    IF ~FlexibleEGL THEN <<<<EGL_CONTEXT_CLIENT_VERSION, 2>>>>
    ELSE IF BothRequested THEN <<VersionVector(negArgs.major, negArgs.minor)>>
    ELSE <<VersionVector(3, 2), VersionVector(3, 1), VersionVector(3, 0), VersionVector(2, 0)>>

\* The position of call n's candidate in the documented list (0: not in it).
CandidateIndex(n) ==
    LET hits == {k \in 1..Len(DocumentedCandidates) :
                    DocumentedCandidates[k] = VersionPart(createCalls[n].attribs)}
    IN  IF hits = {} THEN 0 ELSE CHOOSE k \in hits : TRUE

\* C1: on a native EGL with flexible version attributes the candidates are
\* the requested version alone when both major and minor are requested and
\* 3.2, 3.1, 3.0, 2.0 otherwise; the native createContext calls walk that
\* list in order from its head without skipping a candidate, every candidate
\* has been tried when the call fails, and the handle returned is the one
\* the first successful native call returned.
C1_CandidateOrder ==
    (negPhase = "returned" /\ FlexibleEGL) =>
        /\ createCalls # <<>>
        /\ CandidateIndex(1) = 1
        /\ \A n \in 2..Len(createCalls) :
              CandidateIndex(n) \in {CandidateIndex(n - 1), CandidateIndex(n - 1) + 1}
        /\ \A n \in 1..Len(createCalls) : CandidateIndex(n) \in 1..Len(DocumentedCandidates)
        /\ \A n \in 1..Len(createCalls) : createCalls[n].share = negArgs.share
        /\ IF negError = EGL_SUCCESS
           THEN \E n \in 1..Len(createCalls) :
                   /\ ~CallFailed(createCalls[n])
                   /\ \A k \in 1..(n - 1) : CallFailed(createCalls[k])
                   /\ outContext = createCalls[n].context
           ELSE CandidateIndex(Len(createCalls)) = Len(DocumentedCandidates)

\* C1 witness: no version requested, 3.2, 3.1 and 3.0 failed and 2.0 succeeded.
C1_Witness ==
    /\ negPhase = "returned" /\ FlexibleEGL /\ ~BothRequested
    /\ negError = EGL_SUCCESS
    /\ outContext # EGL_NO_CONTEXT
    /\ {VersionPart(createCalls[n].attribs) : n \in 1..Len(createCalls)} =
          {VersionVector(3, 2), VersionVector(3, 1), VersionVector(3, 0), VersionVector(2, 0)}

\* The n-th call carried the robustness attributes.
RobustCall(n) ==
    VectorHasKey(createCalls[n].attribs, EGL_CONTEXT_OPENGL_RESET_NOTIFICATION_STRATEGY)

\* C2: when robustness is advertised the attempts alternate robust, plain,
\* robust, plain, ...: every robust attempt comes first for its candidate,
\* and after it fails the next attempt is the plain attempt of the same
\* candidate; only a failed plain attempt is followed by another candidate.
C2_RobustBeforePlain ==
    (negPhase = "returned" /\ mHasEXTCreateContextRobustness) =>
        \A n \in 1..Len(createCalls) :
            /\ RobustCall(n) <=> (n % 2 = 1)
            /\ (n % 2 = 0) =>
                  /\ CallFailed(createCalls[n - 1])
                  /\ VersionPart(createCalls[n].attribs) =
                        VersionPart(createCalls[n - 1].attribs)
            /\ (n % 2 = 1 /\ n > 1) =>
                  /\ CallFailed(createCalls[n - 1])
                  /\ VersionPart(createCalls[n].attribs) #
                        VersionPart(createCalls[n - 1].attribs)

\* C2 witness: the robust (3,0) attempt failed, the plain (3,0) attempt
\* followed it, and the (2,0) attempts came after both.
C2_Witness ==
    /\ negPhase = "returned" /\ mHasEXTCreateContextRobustness
    /\ \E n \in 1..Len(createCalls) :
          /\ n + 2 <= Len(createCalls)
          /\ RobustCall(n) /\ CallFailed(createCalls[n])
          /\ VersionPart(createCalls[n].attribs) = VersionVector(3, 0)
          /\ ~RobustCall(n + 1)
          /\ VersionPart(createCalls[n + 1].attribs) = VersionVector(3, 0)
          /\ VersionPart(createCalls[n + 2].attribs) = VersionVector(2, 0)

\* C3: on a legacy native EGL a request for an explicit version other than
\* 2.0 is answered EGL_BAD_ATTRIBUTE without any native createContext call;
\* every other request has the single candidate {EGL_CONTEXT_CLIENT_VERSION: 2}.
C3_LegacyRequest ==
    (negPhase = "returned" /\ ~FlexibleEGL) =>
        IF BothRequested /\ ~(negArgs.major = 2 /\ negArgs.minor = 0)
        THEN negError = EGL_BAD_ATTRIBUTE /\ createCalls = <<>>
        ELSE /\ createCalls # <<>>
             /\ \A n \in 1..Len(createCalls) :
                   VersionPart(createCalls[n].attribs) = <<EGL_CONTEXT_CLIENT_VERSION, 2>>
             /\ Cardinality({n \in 1..Len(createCalls) : RobustCall(n)}) <= 1
             /\ Cardinality({n \in 1..Len(createCalls) : ~RobustCall(n)}) <= 1

\* C3 witness: a legacy EGL was asked for (2,1) and refused.
C3_Witness ==
    /\ negPhase = "returned" /\ ~FlexibleEGL
    /\ negArgs.major = 2 /\ negArgs.minor = 1
    /\ negError = EGL_BAD_ATTRIBUTE

\* C4: when every native createContext call failed, the error returned
\* carries the error code the last call raised, and the caller's context
\* handle and attribute vector are as they were before the call.
C4_AllAttemptsFailed ==
    (/\ negPhase = "returned"
     /\ createCalls # <<>>
     /\ \A n \in 1..Len(createCalls) : CallFailed(createCalls[n])) =>
        /\ negError = createCalls[Len(createCalls)].error
        /\ negError # EGL_SUCCESS
        /\ outContext = EGL_NO_CONTEXT
        /\ outAttribs = <<>>

\* C4 witness: eight attempts failed and the last raised another code than the first.
C4_Witness ==
    /\ negPhase = "returned"
    /\ Len(createCalls) = 8
    /\ \A n \in 1..Len(createCalls) : CallFailed(createCalls[n])
    /\ createCalls[8].error # createCalls[1].error
    /\ negError = createCalls[8].error

\* C5: no native createContext call follows a successful one; on success
\* the attribute vector returned is the vector of the successful call, and
\* it names the reset-notification strategy exactly when that call was the
\* robust attempt (and the NV purge attribute exactly when, in addition,
\* EGL_NV_robustness_video_memory_purge is present).
C5_FirstSuccessWins ==
    negPhase = "returned" =>
        /\ \A n \in 1..(Len(createCalls) - 1) : CallFailed(createCalls[n])
        /\ negError = EGL_SUCCESS =>
              LET last == createCalls[Len(createCalls)]
                  robustWon == mHasEXTCreateContextRobustness /\ Len(createCalls) % 2 = 1
              IN  /\ createCalls # <<>>
                  /\ ~CallFailed(last)
                  /\ outContext = last.context
                  /\ outAttribs = last.attribs
                  /\ VectorHasKey(outAttribs, EGL_CONTEXT_OPENGL_RESET_NOTIFICATION_STRATEGY)
                        <=> robustWon
                  /\ VectorHasKey(outAttribs, EGL_GENERATE_RESET_ON_VIDEO_MEMORY_PURGE_NV)
                        <=> (robustWon /\ mHasNVRobustnessVideoMemoryPurge)

\* C5 witness: a robust attempt with the NV purge attribute succeeded after failures.
C5_Witness ==
    /\ negPhase = "returned" /\ negError = EGL_SUCCESS
    /\ Len(createCalls) >= 3
    /\ VectorHasKey(outAttribs, EGL_GENERATE_RESET_ON_VIDEO_MEMORY_PURGE_NV)
    /\ outAttribs = createCalls[Len(createCalls)].attribs

(***************************************************************************)
(* Properties of makeCurrent and destroyNativeContext, read off lastOp:    *)
(* the record of the operation that ran last, beside the state it left.    *)
(***************************************************************************)
LastMakeCurrent == lastOp.op = "makeCurrent"

\* The entry of the thread that ran the last makeCurrent, as it is now.
CallerEntry == mCurrentNativeContexts[lastOp.thread]

\* The last makeCurrent went down the normal path, or the external path.
LastOnNormalPath ==
    LastMakeCurrent /\ ~(lastOp.before.isExternalContext
                          \/ (~lastOp.context.null /\ lastOp.context.external))
LastOnExternalPath ==
    LastMakeCurrent /\ (lastOp.before.isExternalContext
                         \/ (~lastOp.context.null /\ lastOp.context.external))

\* The three cases of the external path.
LastAdopted == LastOnExternalPath /\ ~lastOp.before.isExternalContext
LastSwitchedSurface ==
    LastOnExternalPath /\ lastOp.before.isExternalContext /\ ~lastOp.context.null
LastReleased ==
    LastOnExternalPath /\ lastOp.before.isExternalContext /\ lastOp.context.null

\* The native make-current calls among `calls`.
MakeCurrentCalls(calls) == {i \in 1..Len(calls) : calls[i].fn = "makeCurrent"}

\* The pair the last makeCurrent compared with the cache: the requested
\* pair after the substitutions of lines 783-804 on the normal path, the
\* requested pair itself on the external path.
LastResolvedPair ==
    IF LastOnNormalPath
    THEN <<ResolvedSurface(lastOp.before, lastOp.drawSurface, lastOp.context),
           ResolvedContext(lastOp.before, lastOp.context)>>
    ELSE <<NewSurface(lastOp.drawSurface), NewContext(lastOp.context)>>

LastCachedPair == <<lastOp.before.surface, lastOp.before.context>>

\* C6 (as stated): every makeCurrent issues zero native make-current calls
\* when the resolved pair equals the calling thread's cached pair and exactly
\* one otherwise.
C6_ZeroOrOneNativeCall ==
    LastMakeCurrent =>
        Cardinality(MakeCurrentCalls(lastOp.calls)) =
            (IF LastResolvedPair = LastCachedPair THEN 0 ELSE 1)

\* C6 (amended): on the normal path, makeCurrent issues zero native
\* make-current calls when the resolved pair equals the calling thread's
\* cached pair, and otherwise exactly one, for the resolved pair; on the
\* external path it issues none, whatever the pair.
C6_NormalPathZeroOrOneNativeCall ==
    /\ LastOnNormalPath =>
          IF LastResolvedPair = LastCachedPair
          THEN MakeCurrentCalls(lastOp.calls) = {}
          ELSE /\ Len(lastOp.calls) = 1
               /\ MakeCurrentCalls(lastOp.calls) = {1}
               /\ <<lastOp.calls[1].surface, lastOp.calls[1].context>> = LastResolvedPair
    /\ LastOnExternalPath => MakeCurrentCalls(lastOp.calls) = {}

\* A makeCurrent for a context found the resolved pair already cached, with a
\* context bound, and called the driver not at all.
C6_Witness ==
    /\ LastOnNormalPath
    /\ ~lastOp.context.null
    /\ lastOp.before.context # EGL_NO_CONTEXT
    /\ LastResolvedPair = LastCachedPair
    /\ lastOp.calls = <<>>

\* C7: on the normal path, a failed native make-current call leaves the
\* calling thread's cached {surface, context, isExternalContext} as it was and
\* makeCurrent returns the native error code; the cache changes only with a
\* successful native call, and then to the resolved pair.
C7_FailureLeavesCache ==
    LastOnNormalPath =>
        /\ (lastOp.calls # <<>> /\ lastOp.calls[1].error # EGL_SUCCESS) =>
               /\ CallerEntry = lastOp.before
               /\ lastOp.error = lastOp.calls[1].error
        /\ CallerEntry # lastOp.before =>
               /\ lastOp.calls # <<>>
               /\ lastOp.calls[1].error = EGL_SUCCESS
               /\ CallerEntry = [surface |-> LastResolvedPair[1],
                                 context |-> LastResolvedPair[2],
                                 isExternalContext |-> lastOp.before.isExternalContext]

\* The driver refused a makeCurrent of a thread that had a context bound.
C7_Witness ==
    /\ LastOnNormalPath
    /\ lastOp.before.context # EGL_NO_CONTEXT
    /\ lastOp.calls # <<>>
    /\ lastOp.calls[1].error # EGL_SUCCESS
    /\ lastOp.error = lastOp.calls[1].error

\* C8: after destroyNativeContext(h) no thread's entry has context h, and
\* every entry that had it has no surface and no context.
C8_DestroyClearsEveryThread ==
    lastOp.op = "destroyNativeContext" =>
        \A t \in Threads :
            /\ mCurrentNativeContexts[t].context # lastOp.context
            /\ lastOp.before[t].context = lastOp.context =>
                   /\ mCurrentNativeContexts[t].surface = EGL_NO_SURFACE
                   /\ mCurrentNativeContexts[t].context = EGL_NO_CONTEXT

\* The context destroyed was cached by every thread, with a surface.
C8_Witness ==
    /\ lastOp.op = "destroyNativeContext"
    /\ \A t \in Threads :
          /\ lastOp.before[t].context = lastOp.context
          /\ lastOp.before[t].surface # EGL_NO_SURFACE

\* The entry {no surface, no context, isExternalContext = false}.
NothingBound ==
    [surface |-> EGL_NO_SURFACE, context |-> EGL_NO_CONTEXT, isExternalContext |-> FALSE]

\* C9: a thread adopts an external context from the entry {no surface, no
\* context, not external}; while the context is adopted a makeCurrent with
\* that context leaves the entry {no surface, the context, external}; and
\* the makeCurrent with no context and no surface that ends it leaves
\* exactly {no surface, no context, not external}.
C9_AdoptReleaseRoundTrip ==
    /\ LastAdopted =>
          /\ lastOp.before = NothingBound
          /\ CallerEntry = [surface |-> EGL_NO_SURFACE,
                            context |-> lastOp.context.native,
                            isExternalContext |-> TRUE]
    /\ LastSwitchedSurface =>
          CallerEntry = [surface |-> EGL_NO_SURFACE,
                         context |-> lastOp.context.native,
                         isExternalContext |-> TRUE]
    /\ LastReleased => CallerEntry = NothingBound

\* A thread released the external context it had adopted.
C9_Witness ==
    /\ LastReleased
    /\ lastOp.drawSurface.null
    /\ lastOp.before.context # EGL_NO_CONTEXT
    /\ CallerEntry = NothingBound

\* C10: on the external path (adopt, surface switch, release) makeCurrent
\* issues no native call, and the surface switch leaves the calling thread's
\* entry as it was.
C10_ExternalPathNoNativeCall ==
    LastOnExternalPath =>
        /\ lastOp.calls = <<>>
        /\ LastSwitchedSurface => CallerEntry = lastOp.before

\* A thread on an external context switched to the external surface.
C10_Witness ==
    /\ LastSwitchedSurface
    /\ ~lastOp.drawSurface.null
    /\ lastOp.drawSurface.external
    /\ lastOp.calls = <<>>

(***************************************************************************)
(* FramebufferAttachment: attach, detach and equality.                     *)
(***************************************************************************)
LastAttachedNull == fbLast.op = "attach" /\ fbLast.resource = NullResource
LastAttachedResource == fbLast.op = "attach" /\ fbLast.resource # NullResource

\* The positions of the notifications fn fired on a resource by the last operation.
Fired(fn) == {i \in DOMAIN fbLast.notifications : fbLast.notifications[i].fn = fn}

\* C11: whatever the attachment state and whatever type, binding point and
\* image index are passed, attach with a null resource leaves the attachment
\* in the state detach leaves it in, the default-constructed one, and fires
\* the notifications detach fires: one onDetach on the bound resource, if any.
C11_AttachNullIsDetach ==
    LastAttachedNull =>
        /\ attachment = detach(fbLast.before).state
        /\ fbLast.notifications = detach(fbLast.before).notifications
        /\ attachment = DefaultAttachment
        /\ fbLast.notifications =
              (IF fbLast.before.mResource # NullResource
               THEN <<onDetach(fbLast.before.mResource)>> ELSE <<>>)

C11_Witness ==
    /\ LastAttachedNull
    /\ fbLast.before.mResource # NullResource
    /\ fbLast.before.mNumViews # 1
    /\ fbLast.type = GL_TEXTURE
    /\ fbLast.binding = GL_COLOR_ATTACHMENT0
    /\ fbLast.textureIndex # InvalidIndex

\* C12: attach of a resource onto an attachment that holds a resource, the
\* same one included, fires exactly one onDetach, on the resource held
\* before, and exactly one onAttach, on the new resource; onto an attachment
\* that holds none it fires exactly one onAttach and no onDetach.
C12_AttachNotifications ==
    LastAttachedResource =>
        /\ Cardinality(Fired("onAttach")) = 1
        /\ \A i \in Fired("onAttach") : fbLast.notifications[i].resource = fbLast.resource
        /\ IF fbLast.before.mResource # NullResource
           THEN /\ Cardinality(Fired("onDetach")) = 1
                /\ \A i \in Fired("onDetach") :
                      fbLast.notifications[i].resource = fbLast.before.mResource
           ELSE Fired("onDetach") = {}
        /\ Len(fbLast.notifications) =
              Cardinality(Fired("onAttach")) + Cardinality(Fired("onDetach"))

C12_Witness ==
    /\ LastAttachedResource
    /\ fbLast.before.mResource = fbLast.resource
    /\ Len(fbLast.notifications) = 2

\* C19: two attachments compare equal exactly when they have the same
\* resource, the same type, the same view count, multiview layout, base view
\* index and viewport offsets and, if the type is GL_TEXTURE, the same image
\* index; the binding point, and the image index of other types, play no part.
C19_EqualityFields ==
    fbLast.op = "==" =>
        LET a == fbLast.before
            b == fbLast.other
        IN  fbLast.result <=>
               /\ a.mResource = b.mResource
               /\ a.mType = b.mType
               /\ a.mNumViews = b.mNumViews
               /\ a.mMultiviewLayout = b.mMultiviewLayout
               /\ a.mBaseViewIndex = b.mBaseViewIndex
               /\ a.mViewportOffsets = b.mViewportOffsets
               /\ (a.mType = GL_TEXTURE => a.mTarget.mTextureIndex = b.mTarget.mTextureIndex)

C19_Witness ==
    /\ fbLast.op = "=="
    /\ fbLast.result
    /\ fbLast.before.mType = GL_RENDERBUFFER
    /\ fbLast.before.mResource # NullResource
    /\ fbLast.before.mTarget.mBinding # fbLast.other.mTarget.mBinding
    /\ fbLast.before.mTarget.mTextureIndex # fbLast.other.mTarget.mTextureIndex

(***************************************************************************)
(* generateConfigs: the configs accepted, their ids and their formats.     *)
(***************************************************************************)
LastGenerated == cfgLast.op = "generateConfigs"

ColorSizesOf(config) ==
    <<config.redSize, config.greenSize, config.blueSize, config.alphaSize>>
DepthStencilSizesOf(config) == <<config.depthSize, config.stencilSize>>

\* The six color patterns and the five depth-stencil pairs of the classification.
CanonicalColorSizes ==
    {<<8, 8, 8, 8>>, <<8, 8, 8, 0>>, <<5, 6, 5, 0>>, <<5, 5, 5, 1>>, <<4, 4, 4, 4>>,
     <<10, 10, 10, 2>>}
CanonicalDepthStencilSizes == {<<0, 0>>, <<16, 0>>, <<24, 0>>, <<24, 8>>, <<0, 8>>}

Canonical(config) ==
    /\ config.colorBufferType = EGL_RGB_BUFFER
    /\ ColorSizesOf(config) \in CanonicalColorSizes
    /\ DepthStencilSizesOf(config) \in CanonicalDepthStencilSizes

\* The native configs of the last call that are canonical, in the driver's order.
AcceptedNative == SelectSeq(cfgLast.native, Canonical)

\* The native config ids that mConfigIds maps to.
MappedNativeIds == {mConfigIds[i] : i \in DOMAIN mConfigIds}

\* C13: a generateConfigs call that follows one on the same native configs
\* returns the same configs under the same internal ids and leaves the same
\* internal-id to native-id map; after any call the map holds exactly the
\* ids 1..n of the n configs returned, in the driver's order, and nothing
\* of an earlier call.
C13_GenerateConfigsIdempotent ==
    LastGenerated =>
        /\ mConfigIds = cfgLast.mConfigIds
        /\ DOMAIN mConfigIds = 1..Len(cfgLast.configSet)
        /\ Len(cfgLast.configSet) = Len(AcceptedNative)
        /\ \A i \in DOMAIN cfgLast.configSet :
              /\ cfgLast.configSet[i].configID = i
              /\ mConfigIds[i] = AcceptedNative[i].configID
        /\ (cfgLast.before.op = "generateConfigs" /\ cfgLast.before.native = cfgLast.native) =>
              /\ cfgLast.configSet = cfgLast.before.configSet
              /\ \A i \in DOMAIN mConfigIds :
                    /\ i \in DOMAIN cfgLast.before.mConfigIds
                    /\ mConfigIds[i] = cfgLast.before.mConfigIds[i]
              /\ DOMAIN cfgLast.before.mConfigIds = DOMAIN mConfigIds

C13_Witness ==
    /\ LastGenerated
    /\ cfgLast.before.op = "generateConfigs"
    /\ cfgLast.before.native = cfgLast.native
    /\ Len(cfgLast.native) = 2
    /\ Len(cfgLast.configSet) = 1
    /\ Canonical(cfgLast.native[2])

\* C14: no config returned by generateConfigs has a color buffer that is not
\* RGB, color sizes outside the six patterns or depth-stencil sizes outside
\* the five pairs, and no native config of that kind has its id in mConfigIds.
C14_OnlyCanonicalConfigs ==
    LastGenerated =>
        /\ \A i \in DOMAIN cfgLast.configSet : Canonical(cfgLast.configSet[i])
        /\ \A j \in DOMAIN cfgLast.native :
              ~Canonical(cfgLast.native[j]) => cfgLast.native[j].configID \notin MappedNativeIds

C14_Witness ==
    /\ LastGenerated
    /\ Len(cfgLast.native) = 2
    /\ cfgLast.native[1].colorBufferType = EGL_RGB_BUFFER
    /\ ColorSizesOf(cfgLast.native[1]) = <<8, 8, 8, 1>>
    /\ DepthStencilSizesOf(cfgLast.native[1]) = <<24, 8>>
    /\ Canonical(cfgLast.native[2])
    /\ MappedNativeIds = {cfgLast.native[2].configID}

\* C15: every config returned has the render-target format of its color
\* sizes, (8,8,8,8) GL_RGBA8, (8,8,8,0) GL_RGB8, (5,6,5,0) GL_RGB565,
\* (5,5,5,1) GL_RGB5_A1, (4,4,4,4) GL_RGBA4, (10,10,10,2) GL_RGB10_A2, and
\* the depth-stencil format of its depth and stencil sizes, (0,0) GL_ZERO,
\* (16,0) GL_DEPTH_COMPONENT16, (24,0) GL_DEPTH_COMPONENT24,
\* (24,8) GL_DEPTH24_STENCIL8, (0,8) GL_STENCIL_INDEX8.
C15_FormatsByExactMatch ==
    LastGenerated =>
        \A i \in DOMAIN cfgLast.configSet :
           LET config == cfgLast.configSet[i]
               color == ColorSizesOf(config)
               ds == DepthStencilSizesOf(config)
           IN  /\ config.renderTargetFormat = GL_RGBA8 <=> color = <<8, 8, 8, 8>>
               /\ config.renderTargetFormat = GL_RGB8 <=> color = <<8, 8, 8, 0>>
               /\ config.renderTargetFormat = GL_RGB565 <=> color = <<5, 6, 5, 0>>
               /\ config.renderTargetFormat = GL_RGB5_A1 <=> color = <<5, 5, 5, 1>>
               /\ config.renderTargetFormat = GL_RGBA4 <=> color = <<4, 4, 4, 4>>
               /\ config.renderTargetFormat = GL_RGB10_A2 <=> color = <<10, 10, 10, 2>>
               /\ config.depthStencilFormat = GL_ZERO <=> ds = <<0, 0>>
               /\ config.depthStencilFormat = GL_DEPTH_COMPONENT16 <=> ds = <<16, 0>>
               /\ config.depthStencilFormat = GL_DEPTH_COMPONENT24 <=> ds = <<24, 0>>
               /\ config.depthStencilFormat = GL_DEPTH24_STENCIL8 <=> ds = <<24, 8>>
               /\ config.depthStencilFormat = GL_STENCIL_INDEX8 <=> ds = <<0, 8>>
               /\ config.renderTargetFormat \in
                     {GL_RGBA8, GL_RGB8, GL_RGB565, GL_RGB5_A1, GL_RGBA4, GL_RGB10_A2}
               /\ config.depthStencilFormat \in
                     {GL_ZERO, GL_DEPTH_COMPONENT16, GL_DEPTH_COMPONENT24,
                      GL_DEPTH24_STENCIL8, GL_STENCIL_INDEX8}

C15_Witness ==
    /\ LastGenerated
    /\ Len(cfgLast.configSet) = 2
    /\ cfgLast.configSet[1].renderTargetFormat = GL_RGB5_A1
    /\ cfgLast.configSet[1].depthStencilFormat = GL_DEPTH_COMPONENT16
    /\ cfgLast.configSet[2].renderTargetFormat = GL_RGB10_A2
    /\ cfgLast.configSet[2].depthStencilFormat = GL_STENCIL_INDEX8

(***************************************************************************)
(* The unimplemented operations, the threads' entries, createContext and   *)
(* the mock pbuffer.                                                       *)
(***************************************************************************)
\* C16: createPixmapSurface returns no surface, and waitClient and waitNative
\* return a result that is not success.
C16_UnimplementedNeverSucceeds ==
    /\ lastOp.op = "createPixmapSurface" => lastOp.returned = NullSurfaceImpl
    /\ lastOp.op \in {"waitClient", "waitNative"} => lastOp.returned # EGL_SUCCESS

\* The entry of thread u is not what it was before the step.
EntryChanged(u) == mCurrentNativeContexts'[u] # mCurrentNativeContexts[u]

\* C17 as stated: the entry of a thread changes only in an operation that
\* runs on that thread.
C17_OnlyOwnThreadMutates ==
    [][\A u \in Threads : EntryChanged(u) => lastOp'.thread = u]_vars

\* C17: makeCurrent and createContext change no entry but that of the thread
\* they run on; destroyNativeContext, on whichever thread it runs, changes the
\* entries that cache the handle destroyed, clearing their surface and
\* context; terminate empties the map.
C17_MutatedByOwnThreadOrTeardown ==
    [][\A u \in Threads :
          EntryChanged(u) =>
             \/ /\ lastOp'.op \in {"makeCurrent", "createContext"}
                /\ lastOp'.thread = u
             \/ /\ lastOp'.op = "destroyNativeContext"
                /\ mCurrentNativeContexts[u].context = lastOp'.context
                /\ mCurrentNativeContexts'[u] =
                      [mCurrentNativeContexts[u] EXCEPT !.surface = EGL_NO_SURFACE,
                                                        !.context = EGL_NO_CONTEXT]
             \/ /\ lastOp'.op = "terminate"
                /\ mCurrentNativeContexts'[u] = NothingBound]_vars

C17_Witness ==
    /\ lastOp.op = "destroyNativeContext"
    /\ \E u \in Threads \ {lastOp.thread} :
          /\ lastOp.before[u].context = lastOp.context
          /\ mCurrentNativeContexts[u].context = EGL_NO_CONTEXT
          /\ mCurrentNativeContexts[lastOp.thread] = lastOp.before[lastOp.thread]

LastCreatedContext == lastOp.op = "createContext"

\* The native createContext calls of the last operation, by position.
CreateCalls == {i \in DOMAIN lastOp.calls : lastOp.calls[i].fn = "createContext"}

\* The native context of the share context passed to the last createContext.
LastShareNative ==
    IF lastOp.shareContext.null THEN EGL_NO_CONTEXT ELSE lastOp.shareContext.native

\* The last createContext returned a context on a native context of its own,
\* created by this call sharing with the share context.
LastOwnNewRenderer ==
    /\ ~lastOp.result.null
    /\ lastOp.result.native \notin lastOp.existing
    /\ \E i \in CreateCalls :
          /\ lastOp.calls[i].error = EGL_SUCCESS
          /\ lastOp.calls[i].context = lastOp.result.native
          /\ lastOp.calls[i].share = LastShareNative

\* C18 as stated: with virtualization every createContext returns a context
\* on the renderer of initialize and creates no native context; without it
\* every createContext returns a context on a native context of its own,
\* created sharing with the native context of the share context.
C18_EveryRequestResolved ==
    LastCreatedContext =>
        IF mVirtualizedContexts
        THEN /\ lastOp.result = ContextObject(mRendererContext, FALSE)
             /\ CreateCalls = {}
        ELSE LastOwnNewRenderer

\* C18: a createContext that does not ask for an external context returns,
\* with virtualization, a context on the renderer of initialize and makes no
\* native call; without virtualization every native createContext it issues
\* shares with the native context of the share context (none if there is
\* none), and it returns a context on the native context so created, or
\* nullptr when the negotiation or a make-current fails.  A createContext
\* for an external context, with either setting, returns a context on the
\* native context current on the calling thread and creates none.
C18_NonExternalRequestsResolved ==
    LastCreatedContext =>
        /\ (mVirtualizedContexts /\ ~lastOp.usingExternalContext) =>
              /\ lastOp.result = ContextObject(mRendererContext, FALSE)
              /\ lastOp.calls = <<>>
        /\ (~mVirtualizedContexts /\ ~lastOp.usingExternalContext) =>
              /\ \A i \in CreateCalls : lastOp.calls[i].share = LastShareNative
              /\ lastOp.error = EGL_SUCCESS => LastOwnNewRenderer
              /\ lastOp.error # EGL_SUCCESS => lastOp.result = NoContextObject
        /\ lastOp.usingExternalContext =>
              /\ CreateCalls = {}
              /\ lastOp.result.external
              /\ lastOp.result.native \in lastOp.existing
              /\ lastOp.result.native = nativeCurrent[lastOp.thread].context
              /\ lastOp.result.native # mRendererContext

C18_Witness ==
    /\ LastCreatedContext
    /\ ~mVirtualizedContexts
    /\ ~lastOp.usingExternalContext
    /\ ~lastOp.shareContext.null
    /\ lastOp.error = EGL_SUCCESS
    /\ Cardinality(CreateCalls) = 2
    /\ LastOwnNewRenderer

LastTerminated == lastOp.op = "terminate"

\* The native calls of the last operation that destroy the surface, by position.
DestroyCalls(surface) ==
    {i \in DOMAIN lastOp.calls :
        lastOp.calls[i].fn = "destroySurface" /\ lastOp.calls[i].surface = surface}

\* The native calls of the last operation that unbind the calling thread.
UnbindCalls ==
    {i \in DOMAIN lastOp.calls :
        /\ lastOp.calls[i].fn = "makeCurrent"
        /\ lastOp.calls[i].surface = EGL_NO_SURFACE
        /\ lastOp.calls[i].context = EGL_NO_CONTEXT}

\* Between initialize and terminate the mock pbuffer exists exactly when the
\* driver is not surfaceless, and no operation destroys a surface; terminate
\* drops the handle and destroys the mock pbuffer, if there was one, once.
MockPbufferLifetime ==
    /\ Initialized =>
          /\ (mMockPbuffer # EGL_NO_SURFACE) <=> ~mSupportsSurfaceless
          /\ \A i \in DOMAIN lastOp.calls : lastOp.calls[i].fn # "destroySurface"
    /\ LastTerminated =>
          /\ mMockPbuffer = EGL_NO_SURFACE
          /\ \A i \in DOMAIN lastOp.calls :
                lastOp.calls[i].fn = "destroySurface" => i \in DestroyCalls(lastOp.mockPbuffer)
          /\ Cardinality(DestroyCalls(lastOp.mockPbuffer)) =
                (IF lastOp.mockPbuffer # EGL_NO_SURFACE THEN 1 ELSE 0)

\* C20 as stated: the lifetime above, and terminate destroys the mock
\* pbuffer only once the calling thread's native context is unbound.
C20_DestroyedOnceAfterUnbinding ==
    /\ MockPbufferLifetime
    /\ LastTerminated =>
          \A i \in DestroyCalls(lastOp.mockPbuffer) :
             CurrentAfter(lastOp.current, SubSeq(lastOp.calls, 1, i - 1)).context
                 = EGL_NO_CONTEXT

\* C20: the lifetime above, and terminate issues the native call that unbinds
\* the calling thread before the one that destroys the mock pbuffer; the
\* outcome of the unbind is logged and does not hold the destroy back.
C20_DestroyedOnceAfterUnbindCall ==
    /\ MockPbufferLifetime
    /\ LastTerminated =>
          \A i \in DestroyCalls(lastOp.mockPbuffer) : \E j \in UnbindCalls : j < i

C20_Witness ==
    /\ LastTerminated
    /\ lastOp.mockPbuffer # EGL_NO_SURFACE
    /\ lastOp.current.surface = lastOp.mockPbuffer
    /\ \E j \in UnbindCalls : lastOp.calls[j].error # EGL_SUCCESS
    /\ DestroyCalls(lastOp.mockPbuffer) # {}

(***************************************************************************)
(* Worker contexts.                                                        *)
(***************************************************************************)
LastCreatedWorker == lastOp.op = "createWorkerContext"

\* C21: createWorkerContext issues one native createContext call, with the
\* attribute vector and the share context it was given, with and without
\* virtualization; when the call succeeds the worker holds the context the
\* call returned, a new one, not the renderer's, and no surface, and the info
\* log is as it was; when it fails no worker is returned and the info log
\* has the failure message appended.  The worker's makeCurrent makes its
\* context current with no surface, and destroying the worker issues one
\* native destroyContext call, for its context.
C21_WorkerContextIndependent ==
    /\ LastCreatedWorker =>
          /\ Len(lastOp.calls) = 1
          /\ lastOp.calls[1].fn = "createContext"
          /\ lastOp.calls[1].share = lastOp.args.sharedContext
          /\ lastOp.attribs = lastOp.args.workerAttribs
          /\ IF lastOp.calls[1].error = EGL_SUCCESS
             THEN /\ lastOp.returned
                  /\ lastOp.worker = WorkerContextEGL(lastOp.calls[1].context, EGL_NO_SURFACE)
                  /\ lastOp.worker.mContext \notin lastOp.args.existing
                  /\ lastOp.worker.mContext # mRendererContext
                  /\ lastOp.worker \in workers
                  /\ lastOp.infoLog = lastOp.args.infoLog
             ELSE /\ ~lastOp.returned
                  /\ lastOp.worker = NoWorkerContext
                  /\ lastOp.infoLog = Append(lastOp.args.infoLog, WorkerCreateFailedLog)
    /\ lastOp.op = "worker.makeCurrent" =>
          /\ lastOp.calls =
                <<NativeMakeCurrent(EGL_NO_SURFACE, lastOp.worker.mContext,
                                    lastOp.calls[1].error)>>
          /\ lastOp.returned <=> lastOp.calls[1].error = EGL_SUCCESS
          /\ lastOp.returned =>
                nativeCurrent[lastOp.thread] =
                    [surface |-> EGL_NO_SURFACE, context |-> lastOp.worker.mContext]
    /\ lastOp.op = "worker.destroy" =>
          /\ lastOp.calls = <<NativeDestroyContext(lastOp.worker.mContext)>>
          /\ lastOp.worker \notin workers
    /\ \A w \in workers : w.mContext # mRendererContext /\ w.mPbuffer = EGL_NO_SURFACE

\* With virtualization, a worker was created sharing with the renderer's
\* context while another worker existed.
C21_Witness ==
    /\ LastCreatedWorker
    /\ mVirtualizedContexts
    /\ lastOp.returned
    /\ lastOp.args.sharedContext = mRendererContext
    /\ Cardinality(workers) = 2

\* C22: when destroyNativeContext(h) issues the native destroy call for h,
\* the entries that cached h have been cleared already: in the map the
\* native call finds, no thread's entry has context h.  The call is the
\* only native call of the operation, and the map is not written after it.
C22_ClearedBeforeNativeDestroy ==
    lastOp.op = "destroyNativeContext" =>
        /\ \A t \in Threads : lastOp.atDestroy[t].context # lastOp.context
        /\ lastOp.atDestroy = ClearCurrent(lastOp.before, lastOp.context)
        /\ lastOp.calls = <<NativeDestroyContext(lastOp.context)>>
        /\ mCurrentNativeContexts = lastOp.atDestroy

\* The context destroyed was cached with a surface by one thread and not by
\* the other; the native call found the first entry empty.
C22_Witness ==
    /\ lastOp.op = "destroyNativeContext"
    /\ \E t \in Threads, u \in Threads :
          /\ lastOp.before[t].context = lastOp.context
          /\ lastOp.before[t].surface # EGL_NO_SURFACE
          /\ lastOp.atDestroy[t] = NothingBound
          /\ lastOp.before[u].context # lastOp.context
          /\ lastOp.before[u].context # EGL_NO_CONTEXT

(***************************************************************************)
(* makeCurrent on the normal path: the substitutions of lines 783-804,     *)
(* read off the native call and the entries before and after.              *)
(***************************************************************************)
\* The last makeCurrent, on the normal path, asked for a context and no surface.
LastSurfaceless ==
    /\ LastOnNormalPath
    /\ ~lastOp.context.null
    /\ lastOp.drawSurface.null

\* C23: on the normal path with virtualization and a context requested,
\* every native make-current call is for the renderer's native context, and
\* a call is left out only when the thread's entry holds that context; when
\* no surface is requested and the entry holds a surface S, the call, if
\* there is one, is for S, and if the entry holds S with the renderer's
\* context (what a makeCurrent with S left) there is no native call and the
\* entry stays as it was.
C23_VirtualizedSubstitution ==
    (LastOnNormalPath /\ mVirtualizedContexts /\ ~lastOp.context.null) =>
        /\ \A i \in DOMAIN lastOp.calls :
              lastOp.calls[i].fn = "makeCurrent" /\ lastOp.calls[i].context = mRendererContext
        /\ lastOp.calls = <<>> => lastOp.before.context = mRendererContext
        /\ (LastSurfaceless /\ lastOp.before.surface # EGL_NO_SURFACE) =>
              /\ \A i \in DOMAIN lastOp.calls : lastOp.calls[i].surface = lastOp.before.surface
              /\ lastOp.before.context = mRendererContext =>
                    /\ lastOp.calls = <<>>
                    /\ CallerEntry = lastOp.before
                    /\ lastOp.error = EGL_SUCCESS

\* A thread that had made a context current on an application surface asked
\* for a context with no surface: no native call, the surface stays cached.
C23_Witness ==
    /\ LastSurfaceless
    /\ mVirtualizedContexts
    /\ lastOp.before.surface \in AppSurfaceHandles
    /\ lastOp.before.context = mRendererContext
    /\ lastOp.calls = <<>>
    /\ CallerEntry.surface = lastOp.before.surface

C25_ExternalRendererAdopts ==
    (LastCreatedContext /\ lastOp.usingExternalContext) =>
        /\ lastOp.calls = <<>>
        /\ lastOp.error = EGL_SUCCESS
        /\ lastOp.result = ContextObject(nativeCurrent[lastOp.thread].context, TRUE)
        /\ lastOp.result.native \in lastOp.existing
        /\ nativeContexts = lastOp.existing
        /\ CallerEntry = lastOp.before

\* A thread that had adopted an external context created another context on
\* it: its entry still names the context as external, with no surface.
C25_Witness ==
    /\ LastCreatedContext
    /\ lastOp.usingExternalContext
    /\ lastOp.before.isExternalContext
    /\ lastOp.before.context = lastOp.result.native
    /\ CallerEntry = lastOp.before
    /\ mMockPbuffer # EGL_NO_SURFACE

\* The last operation was a createContext that ran createRenderer with
\* isExternalContext and makeNewContextCurrent false, and succeeded.
LastCreatedOwnRenderer ==
    /\ LastCreatedContext
    /\ ~lastOp.usingExternalContext
    /\ ~mVirtualizedContexts
    /\ lastOp.error = EGL_SUCCESS

\* The last operation was an initialize that succeeded: it ran createRenderer
\* with makeNewContextCurrent true.
LastInitialized == lastOp.op = "initialize" /\ lastOp.error = EGL_SUCCESS

\* The last native call of the last operation.
LastCall == lastOp.calls[Len(lastOp.calls)]

\* C26: a successful createRenderer with isExternalContext and
\* makeNewContextCurrent false leaves the calling thread's entry as it found
\* it, and its last native call is the make-current of the surface and
\* context of that entry; with makeNewContextCurrent true the entry becomes
\* (mMockPbuffer, the new context), and the one native make-current call is
\* the one that bound that pair: nothing is restored.
C26_RestoreUnlessMakeCurrentNow ==
    /\ LastCreatedOwnRenderer =>
          /\ CallerEntry = lastOp.before
          /\ lastOp.calls # <<>>
          /\ LastCall = NativeMakeCurrent(lastOp.before.surface, lastOp.before.context,
                                          EGL_SUCCESS)
          /\ Cardinality(MakeCurrentCalls(lastOp.calls)) = 2
    /\ LastInitialized =>
          /\ CallerEntry = [surface |-> mMockPbuffer, context |-> mRendererContext,
                            isExternalContext |-> lastOp.before.isExternalContext]
          /\ mRendererContext # EGL_NO_CONTEXT
          /\ mMockPbuffer = lastOp.mockPbuffer
          /\ lastOp.calls # <<>>
          /\ LastCall = NativeMakeCurrent(mMockPbuffer, mRendererContext, EGL_SUCCESS)
          /\ MakeCurrentCalls(lastOp.calls) = {Len(lastOp.calls)}
          /\ \E i \in CreateCalls : lastOp.calls[i].context = mRendererContext

\* The thread that initialized the display, and so had the renderer's
\* context cached on the mock pbuffer, created a context with a renderer of
\* its own: the last native call bound the mock pbuffer and the renderer's
\* context again.
C26_Witness ==
    /\ LastCreatedOwnRenderer
    /\ lastOp.before.surface = MockPbufferHandle
    /\ lastOp.before.context = mRendererContext
    /\ lastOp.result.native # mRendererContext
    /\ CallerEntry = lastOp.before
    /\ LastCall.context = mRendererContext

(***************************************************************************)
(* generateConfigs: surface types, and the ids surfaces are created by.    *)
(***************************************************************************)
\* C27: no config returned by generateConfigs has EGL_PIXMAP_BIT in its
\* surface type, whatever the driver reports for the native config it comes
\* from, and every other surface-type bit is as the driver reports it.
C27_PixmapBitStripped ==
    LastGenerated =>
        /\ Len(cfgLast.configSet) = Len(AcceptedNative)
        /\ \A i \in DOMAIN cfgLast.configSet :
              /\ ~HasBit(cfgLast.configSet[i].surfaceType, EGL_PIXMAP_BIT)
              /\ \A bit \in SurfaceTypeBits \ {EGL_PIXMAP_BIT} :
                    HasBit(cfgLast.configSet[i].surfaceType, bit)
                        <=> HasBit(AcceptedNative[i].surfaceType, bit)
              /\ cfgLast.configSet[i].surfaceType =
                    AcceptedNative[i].surfaceType
                        - (IF HasBit(AcceptedNative[i].surfaceType, EGL_PIXMAP_BIT)
                           THEN EGL_PIXMAP_BIT ELSE 0)

\* The driver reported a config with the window, pbuffer, pixmap and one
\* more bit, and one without the pixmap bit; both were returned.
C27_Witness ==
    /\ LastGenerated
    /\ Len(cfgLast.configSet) = 2
    /\ cfgLast.native[1].surfaceType = EGL_WINDOW_BIT + EGL_PBUFFER_BIT + EGL_PIXMAP_BIT + 8
    /\ cfgLast.configSet[1].surfaceType = EGL_WINDOW_BIT + EGL_PBUFFER_BIT + 8
    /\ cfgLast.native[2].surfaceType = EGL_WINDOW_BIT + EGL_PBUFFER_BIT
    /\ cfgLast.configSet[2].surfaceType = EGL_WINDOW_BIT + EGL_PBUFFER_BIT

\* A surface was created against a config of the last generateConfigs.
LastCreatedSurface == LastGenerated /\ cfgLast.surface # NoSurfaceCall

\* C28: after generateConfigs, mConfigIds has one entry for each config
\* returned and no other; the configs returned have the internal ids 1, 2,
\* ... in the order the driver enumerated the native configs they come from;
\* the entry of an internal id is the EGL_CONFIG_ID of that native config;
\* and createWindowSurface and createPbufferSurface ask the driver for the
\* config with that EGL_CONFIG_ID, and get the native config the config was
\* made from.
C28_InternalIdsMapToNativeIds ==
    LastGenerated =>
        /\ mConfigIds = cfgLast.mConfigIds
        /\ DOMAIN mConfigIds = 1..Len(cfgLast.configSet)
        /\ Len(cfgLast.configSet) = Len(AcceptedNative)
        /\ \A i \in DOMAIN cfgLast.configSet :
              /\ cfgLast.configSet[i].configID = i
              /\ mConfigIds[i] = AcceptedNative[i].configID
        /\ LastCreatedSurface =>
              /\ cfgLast.surface.configID \in DOMAIN cfgLast.configSet
              /\ cfgLast.surface.configAttribList =
                    <<EGL_CONFIG_ID, AcceptedNative[cfgLast.surface.configID].configID,
                      EGL_NONE>>
              /\ cfgLast.surface.numConfig = 1
              /\ cfgLast.surface.config = <<AcceptedNative[cfgLast.surface.configID]>>

\* The driver's first config was rejected: a pbuffer surface for the config
\* with internal id 1 was created with the driver's second config.
C28_Witness ==
    /\ LastCreatedSurface
    /\ cfgLast.surface.op = "createPbufferSurface"
    /\ Len(cfgLast.native) = 2
    /\ ~Canonical(cfgLast.native[1])
    /\ cfgLast.surface.configID = 1
    /\ cfgLast.surface.config = <<cfgLast.native[2]>>

\* The last operation was a detach; LastDetachedAgain when the operation
\* before it was a detach too.
LastDetached == fbLast.op = "detach"
LastDetachedAgain == LastDetached /\ fbLast.again

\* C29: detach fires one onDetach, on the resource bound, when a resource
\* was bound, and nothing when none was; after it the attachment holds no
\* resource, has the type GL_NONE, the default target, one view, no
\* multiview layout, the base view index 0 and a single zero viewport
\* offset; a detach that follows a detach leaves the attachment as it was
\* and fires nothing.
C29_DetachResetsAndNotifiesOnce ==
    LastDetached =>
        /\ fbLast.notifications =
              (IF fbLast.before.mResource # NullResource
               THEN <<onDetach(fbLast.before.mResource)>> ELSE <<>>)
        /\ attachment.mResource = NullResource
        /\ attachment.mType = GL_NONE
        /\ attachment.mTarget = DefaultTarget
        /\ attachment.mNumViews = 1
        /\ attachment.mMultiviewLayout = GL_NONE
        /\ attachment.mBaseViewIndex = 0
        /\ attachment.mViewportOffsets = <<ZeroOffset>>
        /\ fbLast.again => (attachment = fbLast.before /\ fbLast.notifications = <<>>)

\* A detach of a texture attachment that held a resource, two views and two
\* offsets, followed by a second detach.
C29_Witness ==
    /\ LastDetachedAgain
    /\ fbLast.previous.mResource # NullResource
    /\ fbLast.previous.mType = GL_TEXTURE
    /\ fbLast.previous.mNumViews = 2
    /\ Len(fbLast.previous.mViewportOffsets) = 2
    /\ fbLast.before = DefaultAttachment
    /\ attachment = DefaultAttachment

(***************************************************************************)
(* initializeContext: the number of native calls.                          *)
(***************************************************************************)
\* The calls of the last initializeContext made for the candidate of call n,
\* with the robustness attributes (robust = TRUE) or without them.
CallsForCandidate(n, robust) ==
    {k \in 1..Len(createCalls) :
        /\ VersionPart(createCalls[k].attribs) = VersionPart(createCalls[n].attribs)
        /\ RobustCall(k) = robust}

\* C30: initializeContext returns after at most two native createContext
\* calls for each candidate, one with the robustness attributes and one
\* without them: at most 8 calls when no version is requested, at most 2
\* when a version is requested or the native EGL is a legacy one; no two
\* calls of one initializeContext carry the same attribute vector.
C30_BoundedCreateCalls ==
    negPhase = "returned" =>
        /\ Len(createCalls) <= 8
        /\ (BothRequested \/ ~FlexibleEGL) => Len(createCalls) <= 2
        /\ \A n \in 1..Len(createCalls) :
              /\ Cardinality(CallsForCandidate(n, TRUE)) <= 1
              /\ Cardinality(CallsForCandidate(n, FALSE)) <= 1
              /\ ~mHasEXTCreateContextRobustness => CallsForCandidate(n, TRUE) = {}
        /\ \A m, n \in 1..Len(createCalls) :
              m # n => createCalls[m].attribs # createCalls[n].attribs

\* No version was requested and the eighth call, the attempt for 2.0
\* without robustness attributes, was the first to succeed.
C30_Witness ==
    /\ negPhase = "returned" /\ FlexibleEGL /\ ~BothRequested
    /\ Len(createCalls) = 8
    /\ negError = EGL_SUCCESS
    /\ ~RobustCall(8)
    /\ VersionPart(createCalls[8].attribs) = VersionVector(2, 0)

(***************************************************************************)
(* initialize: the config selected for the mock pbuffer and the renderer.  *)
(***************************************************************************)
\* The last operation was an initialize that reached the loop of line 298.
LastChoseConfig ==
    lastOp.op = "initialize" /\ lastOp.failed \notin {"eglVersion", "renderableTypes"}

\* The positions in renderableTypes of the types the driver has an RGBA8,
\* D24S8 config for.
TypesWithConfig ==
    {i \in DOMAIN lastOp.renderableTypes : lastOp.answers[i] = ChooseConfigOne}

\* C31: initialize asks the driver for the renderable types in descending
\* preference (EGL_OPENGL_ES3_BIT before EGL_OPENGL_ES2_BIT) and selects the
\* RGBA8, D24S8 config of the first type the driver has one for; it fails
\* at the config selection only when the driver has one for no type of the
\* list, also when a chooseConfig for an earlier type returned EGL_TRUE and
\* no config.
C31_FirstTypeWithConfigSelected ==
    LastChoseConfig =>
        /\ lastOp.platformAttrib = EGL_PLATFORM_ANGLE_TYPE_OPENGLES_ANGLE =>
              lastOp.renderableTypes \in {<<EGL_OPENGL_ES3_BIT, EGL_OPENGL_ES2_BIT>>,
                                          <<EGL_OPENGL_ES2_BIT>>}
        /\ \A k \in DOMAIN lastOp.chooseCalls :
              lastOp.chooseCalls[k].renderableType = lastOp.renderableTypes[k]
        /\ IF TypesWithConfig = {}
           THEN lastOp.failed = "chooseConfig"
           ELSE /\ lastOp.failed # "chooseConfig"
                /\ lastOp.configWithFormat =
                      FormatConfigOf(lastOp.renderableTypes[MinKey(TypesWithConfig)])

(***************************************************************************)
(* The thread entries of external contexts.                                *)
(***************************************************************************)
\* C32: in every state a thread entry with isExternalContext set holds a
\* context and no surface; destroyNativeContext of a context that a thread
\* has adopted as external does not leave the thread's entry with
\* isExternalContext set and no context.
C32_ExternalEntryHoldsContext ==
    \A t \in Threads :
        CurrentNativeContextOf(t).isExternalContext =>
            /\ CurrentNativeContextOf(t).context # EGL_NO_CONTEXT
            /\ CurrentNativeContextOf(t).surface = EGL_NO_SURFACE

(***************************************************************************)
(* FramebufferAttachment: the balance of onAttach and onDetach.            *)
(***************************************************************************)
\* How many of the attachments a and b hold the resource.
BoundTo(resource, a, b) ==
    (IF a.mResource = resource THEN 1 ELSE 0) + (IF b.mResource = resource THEN 1 ELSE 0)

\* How many attachments hold the resource before the last operation and
\* after it: the attachment itself and the other one.
HeldThroughout(resource) ==
    (IF fbLast.before.mResource = resource /\ attachment.mResource = resource
     THEN 1 ELSE 0)
        + (IF fbLast.otherBefore.mResource = resource /\ otherAttachment.mResource = resource
           THEN 1 ELSE 0)

LastNotifying == fbLast.op \in {"attach", "detach", "operator="}

\* C33: for every resource, the onAttach calls it has received minus the
\* onDetach calls it has received number the attachments that hold it; and
\* while an attach, detach or move assignment delivers its notifications
\* the difference does not go below the number of attachments that hold the
\* resource before and after the operation (an attach of the resource that
\* is already held calls onAttach before onDetach).
C33_NotificationsBalance ==
    \A r \in Resources :
        /\ refCount[r] = BoundTo(r, attachment, otherAttachment)
        /\ LastNotifying =>
              /\ fbLast.lowest[r] >= HeldThroughout(r)
              /\ fbLast.lowest[r] >= 0

\* Both attachments hold one resource, after a move assignment at some
\* point, and it has just been attached again to the first of them.
C33_Witness ==
    /\ fbLast.op = "attach"
    /\ fbLast.resource # NullResource
    /\ fbLast.before.mResource = fbLast.resource
    /\ otherAttachment.mResource = fbLast.resource
    /\ otherAttachment.mTarget # attachment.mTarget
    /\ refCount[fbLast.resource] = 2
    /\ fbLast.lowest[fbLast.resource] = 2
    /\ Len(fbLast.notifications) = 2

(***************************************************************************)
(* The thread entries and the driver's binding.                            *)
(***************************************************************************)
\* C34: the entry of a thread that is not bound to an external context,
\* when it holds a surface or a context, is the pair the driver has current
\* on the thread, so that a makeCurrent that leaves out the native call
\* finds the resolved pair bound; makeCurrent, createRenderer, failed or
\* not, and the makeCurrent and unmakeCurrent of worker contexts keep it so.
C34_EntryIsNativeBinding ==
    \A t \in Threads :
        LET cc == CurrentNativeContextOf(t)
        IN  (/\ ~cc.isExternalContext
             /\ (cc.surface # EGL_NO_SURFACE \/ cc.context # EGL_NO_CONTEXT)) =>
                /\ nativeCurrent[t].surface = cc.surface
                /\ nativeCurrent[t].context = cc.context

(***************************************************************************)
(* The owner of a native context that createRenderer created.              *)
(***************************************************************************)
\* The last operation ran createRenderer for a native context of its own:
\* an initialize, or a createContext that is not for an external context.
LastRanCreateRenderer ==
    \/ lastOp.op = "initialize"
    \/ lastOp.op = "createContext" /\ ~lastOp.usingExternalContext

\* The native contexts the driver created for the last operation.
CreatedByLast ==
    {lastOp.calls[i].context : i \in CreateCalls} \ {EGL_NO_CONTEXT}

\* A renderer holds the native context: the display's, or a context's own.
OwnedByRenderer(context) ==
    context = mRendererContext \/ ContextObject(context, FALSE) \in contexts

\* C35: a native context created by a createRenderer call belongs, when
\* the call has returned, to a renderer, or has been destroyed; this holds
\* for every outcome, a makeCurrent that fails after initializeContext
\* succeeded included.
C35_CreatedContextOwnedOrDestroyed ==
    LastRanCreateRenderer =>
        \A context \in CreatedByLast :
            OwnedByRenderer(context) \/ context \notin nativeContexts

====
